---------------------------- MODULE Spec2Model ----------------------------
(***************************************************************************)
(* A model of the browser-side synchronisation layer of artha-dashboard:   *)
(* the toast queue (static/js/toast.js), the debounced inline edit of a    *)
(* transaction row and the transaction list with delete / undo / reorder   *)
(* (static/js/transactions.js), and the cancellable chart refresh          *)
(* (static/js/chart.js), the drag binding of the transaction list and the  *)
(* notes script (static/js/notes.js).                                      *)
(*                                                                         *)
(* Every subsystem has its own next-state relation and specification       *)
(* (SpecToast, SpecEdit, SpecChart, SpecList, SpecSortable, SpecNote) over *)
(* its own variables; the variables of the other subsystems stay at their  *)
(* initial values.                                                         *)
(***************************************************************************)
EXTENDS Integers, Sequences, FiniteSets, TLC

VARIABLES
    \* ---- toast.js
    toastQueue,     \* let toastQueue = []: the tracked toasts, oldest first
    toastCls,       \* toast -> "none" (not created) | "visible" | "exit"
    toastInDom,     \* toast -> is the element attached to #toast-container
    toastDur,       \* toast -> the duration argument of its showToast call
    toastTimer,     \* toast -> the timeouts set by its startTimer still pending
    toastHover,     \* the toast the pointer is over, 0 when none
    toastCount,     \* number of showToast calls made so far
    toastAction,    \* toast -> does it carry an action button (options.onAction)
    toastInvoked,   \* history: toast -> the calls of its options.onAction
    toastThrown,    \* history: toast -> the calls of options.onAction that threw
    toastClosed,    \* history: toast with an action button -> was its close button activated
    \* ---- transactions.js: inline edit of a row
    sinceEdit,      \* ms since the last debounceSaveTransaction call, capped
    saveTimeout,    \* let saveTimeout: the handle of the last timeout set, 0 at load
    saveTimers,     \* the timeouts set by debounceSaveTransaction still pending
    rowText,        \* row -> the text of .tx-desc, .tx-amount and .tx-type
    edits,          \* history: the edit events dispatched so far
    updSent,        \* history: the /update_transaction requests issued
    updInFlight,    \* the requests of updSent that await their response
    rowBusy,        \* row -> does the row carry aria-busy="true" and bg-yellow-100
    rowPulse,       \* row -> its classes among bg-green-100 and bg-red-100
    pulseTimers,    \* the pending timeouts that take such a class off a row
    updToasts,      \* history: request -> the toast shown on its response, "" before
    ariaLive,       \* ariaLiveRegion.textContent
    \* ---- chart.js
    chartLib,       \* typeof Chart !== "undefined": is Chart.js loaded
    chartCalls,     \* the updateChartData calls made so far, in order
    currentAbortController, \* the call whose controller the variable holds, 0 for null
    financeChartData,       \* export let financeChartData
    spinners,       \* the calls whose spinnerInterval is running
    canvas,         \* what #financeChart shows
    fallbackBy,     \* history: the calls that drew "Failed to load chart"
    initState,      \* initDashboardDataWithRetry: "start" | "await" | "delay" | "ok" | "failed"
    initAwaits,     \* the updateChartData call initDashboardDataWithRetry awaits, 0 for none
    retryCount,     \* let retryCount of initDashboardDataWithRetry
    \* ---- transactions.js, the list, and the server behind it
    txList,         \* the li[data-id] rows of #tx-list, in document order
    requests,       \* the fetches of the list handlers, in the order sent
    persistedOrder, \* server: the ids of the live transactions, in stored order
    undoSlot,       \* server: the id of the soft-deleted item, 0 if none
    userOps,        \* history: the user operations so far
    drops,          \* history: the drops so far
    txBusy,         \* the rows of the list that carry aria-busy="true"
    txToasts,       \* history: kind of toast -> showToast calls of the list handlers
    formResets,     \* history: the form.reset() calls on the add form
    txLastToast,    \* the message of the latest showToast call of the list handlers
    txRefreshes,    \* history: the updateChartData / updateSummaryUI passes of the list handlers
    \* ---- transactions.js: the drag binding of #tx-list
    sortableLib,    \* window.Sortable: is the drag library loaded
    sortableBound,  \* list.dataset.sortableBound === "1"
    txSortables,    \* the Sortable instances made on #tx-list so far
    sortableCalls,  \* history: per initTransactionSortable call, was the library loaded
    \* ---- notes.js, and the server behind it
    noteScript,     \* which version of the notes script the page loads
    noteRows,       \* the li.note-row rows of #note-list, in document order
    noteText,       \* note -> the textContent of its .editable-note
    noteTimer,      \* the pending save timeout, <<>> when none
    noteSaves,      \* history: the note saves started so far
    noteRequests,   \* the fetches of the notes script, in the order sent
    noteIndicator,  \* note -> the "Saving..." indicator next to it, 0 for none
    noteServer,     \* server: the live notes and the note last deleted
    noteOps,        \* history: the user operations on the notes so far
    noteToasts,     \* history: kind of toast -> showToast calls of the note list handlers
    \* ---- widgets.js
    widgetChildren, \* the ids of the children of #dashboard-widgets, in document order
    widgetStored,   \* localStorage item "widgetOrder"
    widgetRendered, \* history: the children as the page had them before initWidgetSorting
    widgetPhase,    \* history: "loaded" until the first drag after a page load, then "dragged"
    widgetOps,      \* history: the page loads and drags so far
    \* ---- transactions.js, updateSummaryUI
    summaryCalls,   \* history: the calls of updateSummaryUI in the order started, each
                    \* with the state of its fetch and the totals it was answered with
    summaryText     \* textContent of #finance-income, #finance-expense, #finance-balance

\* The action button of a toast and what was done with its buttons.
toastButtons == <<toastAction, toastInvoked, toastThrown, toastClosed>>

toastVars == <<toastQueue, toastCls, toastInDom, toastDur, toastTimer,
               toastHover, toastCount, toastButtons>>

\* What saveTransaction shows of its outcome.
editFeedback == <<rowBusy, rowPulse, pulseTimers, updToasts, ariaLive>>

editVars == <<sinceEdit, saveTimeout, saveTimers, rowText, edits, updSent,
              updInFlight, editFeedback>>

\* init.js: the loop of initDashboardDataWithRetry.
initVars == <<initState, initAwaits, retryCount>>

chartVars == <<chartLib, chartCalls, currentAbortController, financeChartData,
               spinners, canvas, fallbackBy, initVars>>

\* What the list handlers show of their outcome.
txFeedback == <<txBusy, txToasts, formResets, txLastToast, txRefreshes>>

listVars == <<txList, requests, persistedOrder, undoSlot, userOps, drops, txFeedback>>

sortVars == <<sortableLib, sortableBound, txSortables, sortableCalls>>

noteVars == <<noteScript, noteRows, noteText, noteTimer, noteSaves, noteRequests,
              noteIndicator, noteServer, noteOps, noteToasts>>

widgetVars == <<widgetChildren, widgetStored, widgetRendered, widgetPhase, widgetOps>>

summaryVars == <<summaryCalls, summaryText>>

vars == <<toastVars, editVars, chartVars, listVars, sortVars, noteVars, widgetVars,
          summaryVars>>

\* The variables an action of one subsystem leaves alone.
notToastVars ==
    <<editVars, chartVars, listVars, sortVars, noteVars, widgetVars, summaryVars>>
notEditVars ==
    <<toastVars, chartVars, listVars, sortVars, noteVars, widgetVars, summaryVars>>
notChartVars ==
    <<toastVars, editVars, listVars, sortVars, noteVars, widgetVars, summaryVars>>
notListVars ==
    <<toastVars, editVars, chartVars, sortVars, noteVars, widgetVars, summaryVars>>
notSortVars ==
    <<toastVars, editVars, chartVars, listVars, noteVars, widgetVars, summaryVars>>
notSummaryVars == <<toastVars, editVars, chartVars, listVars, sortVars, noteVars, widgetVars>>
notWidgetVars ==
    <<toastVars, editVars, chartVars, listVars, sortVars, noteVars, summaryVars>>
notNoteVars ==
    <<toastVars, editVars, chartVars, listVars, sortVars, widgetVars, summaryVars>>

--------------------------------------------------------------------------
(* Generic helpers on sequences.                                          *)

Range(s) == {s[i] : i \in 1..Len(s)}

\* Array.prototype.filter(t => t !== x)
WithoutNone(s, x) == s
Without(s, x) == SelectSeq(s, LAMBDA y : y # x)


--------------------------------------------------------------------------
(* toast.js                                                               *)

MAX_TOASTS == 5

\* Bounds of the toast model.
MaxShown == 6       \* showToast calls in one behaviour
MaxActionShown == 2 \* showToast calls in one behaviour with action toasts
MaxInvokes == 2     \* activations of the action button of one toast

ToastIds == 1..MaxShown

\* The durations callers pass: 0 (persist) and a positive one (3000 default).
DefaultDuration == 3000
Durations == {0, DefaultDuration}

\* showToast("Transaction deleted", "info", 10000, { actionText: "Undo", ... })
UndoDuration == 10000

InitToast ==
    /\ toastQueue = <<>>
    /\ toastCls = [t \in ToastIds |-> "none"]
    /\ toastInDom = [t \in ToastIds |-> FALSE]
    /\ toastDur = [t \in ToastIds |-> 0]
    /\ toastTimer = [t \in ToastIds |-> 0]
    /\ toastHover = 0
    /\ toastCount = 0
    /\ toastAction = [t \in ToastIds |-> FALSE]
    /\ toastInvoked = [t \in ToastIds |-> 0]
    /\ toastThrown = [t \in ToastIds |-> 0]
    /\ toastClosed = [t \in ToastIds |-> FALSE]

\* function removeToast(toast): classList.remove("visible"); add("exit")
RemoveToast(cls, t) == [cls EXCEPT ![t] = "exit"]

\* if (toastQueue.length >= MAX_TOASTS): the size limit of showToast
QueueFullOffByOne(q) == Len(q) > MAX_TOASTS
QueueFull(q) == Len(q) >= MAX_TOASTS

\* const startTimer = () => { if (duration <= 0) return; autoRemoveTimeout = setTimeout(...) }
\* The timeout that autoRemoveTimeout held before is not cleared here.
StartTimerAlways(tm, t, dur) == [tm EXCEPT ![t] = @ + 1]
StartTimer(tm, t, dur) == IF dur <= 0 THEN tm ELSE [tm EXCEPT ![t] = @ + 1]

\* const stopTimer = () => { clearTimeout(autoRemoveTimeout); autoRemoveTimeout = null }
\* autoRemoveTimeout holds the timeout set last, which is the last to fire.
StopTimerKeepsIt(tm, t) == tm
StopTimer(tm, t) == IF tm[t] > 0 THEN [tm EXCEPT ![t] = @ - 1] ELSE tm

\* export function showToast(message, type, duration, options); act tells
\* whether options carries actionText and onAction.
ShowToast(dur, act) ==
    /\ toastCount < MaxShown
    /\ LET t == toastCount + 1
           full == QueueFull(toastQueue) /\ toastQueue # <<>>
           \* const oldestToast = toastQueue.shift(); removeToast(oldestToast)
           queue1 == IF full THEN Tail(toastQueue) ELSE toastQueue
           cls1 == IF full THEN RemoveToast(toastCls, Head(toastQueue))
                           ELSE toastCls
       IN  /\ toastQueue' = Append(queue1, t)
           /\ toastCls' = [cls1 EXCEPT ![t] = "visible"]
           /\ toastInDom' = [toastInDom EXCEPT ![t] = TRUE]
           /\ toastDur' = [toastDur EXCEPT ![t] = dur]
           /\ toastTimer' = StartTimer(toastTimer, t, dur)
           /\ toastAction' = [toastAction EXCEPT ![t] = act]
           /\ toastCount' = t
    /\ UNCHANGED <<toastHover, toastInvoked, toastThrown, toastClosed, notToastVars>>

\* showToast in a behaviour where toasts may carry an action button.
ShowActionToast(dur, act) ==
    /\ toastCount < MaxActionShown
    /\ ShowToast(dur, act)

\* try { options.onAction(); } finally { removeToast(toast); }
RemoveToastUnlessThrown(cls, t, throws) == IF throws THEN cls ELSE RemoveToast(cls, t)
FinallyRemoveToast(cls, t, throws) == RemoveToast(cls, t)

\* actionBtn click, or keydown of Enter or Space: options.onAction() is
\* called, it returns or throws, and the toast is dismissed.  The button
\* stays in the document, and so can be activated, until the element is
\* detached.
ActivateToastAction(t, throws) ==
    /\ toastInDom[t] /\ toastAction[t]
    /\ toastInvoked[t] < MaxInvokes
    /\ toastInvoked' = [toastInvoked EXCEPT ![t] = @ + 1]
    /\ toastThrown' = IF throws THEN [toastThrown EXCEPT ![t] = @ + 1] ELSE toastThrown
    /\ toastCls' = FinallyRemoveToast(toastCls, t, throws)
    /\ UNCHANGED <<toastQueue, toastInDom, toastDur, toastTimer, toastHover,
                   toastCount, toastAction, toastClosed, notToastVars>>

\* closeBtn click, or keydown of Enter or Space: removeToast(toast).  The
\* button stays in the document, and so can be activated, until the element
\* is detached.
DismissToast(t) ==
    /\ toastInDom[t]
    /\ toastCls' = RemoveToast(toastCls, t)
    /\ toastClosed' = [toastClosed EXCEPT ![t] = toastAction[t]]
    /\ UNCHANGED <<toastQueue, toastInDom, toastDur, toastTimer, toastHover,
                   toastCount, toastAction, toastInvoked, toastThrown, notToastVars>>

\* setTimeout(() => removeToast(toast), duration) fires.  The timer is not
\* cleared when the toast is dismissed or detached.
ToastTimerFires(t) ==
    /\ toastTimer[t] > 0
    /\ toastTimer' = [toastTimer EXCEPT ![t] = @ - 1]
    /\ toastCls' = RemoveToast(toastCls, t)
    /\ UNCHANGED <<toastQueue, toastInDom, toastDur, toastHover, toastCount,
                   toastButtons, notToastVars>>

\* toast.addEventListener("mouseenter", stopTimer).  There is one pointer:
\* it enters a toast only when it is over no other toast.
ToastMouseEnter(t) ==
    /\ toastInDom[t] /\ toastHover = 0
    /\ toastHover' = t
    /\ toastTimer' = StopTimer(toastTimer, t)
    /\ UNCHANGED <<toastQueue, toastCls, toastInDom, toastDur, toastCount,
                   toastButtons, notToastVars>>

\* toast.addEventListener("mouseleave", startTimer)
ToastMouseLeave(t) ==
    /\ toastInDom[t] /\ toastHover = t
    /\ toastHover' = 0
    /\ toastTimer' = StartTimer(toastTimer, t, toastDur[t])
    /\ UNCHANGED <<toastQueue, toastCls, toastInDom, toastDur, toastCount,
                   toastButtons, notToastVars>>

\* toast.addEventListener("transitionend", ...) for the opacity transition of
\* a toast carrying the class "exit": detach it and drop it from the queue.
\* (The same event on a toast without "exit", the fade-in, changes nothing.)
\* No event reaches a detached element, and a timeout still pending for it
\* only adds "exit" to the detached element again, so the closure state of a
\* detached toast (duration, timeout) is dropped from the state here.
ToastTransitionEnd(t) ==
    /\ toastInDom[t] /\ toastCls[t] = "exit"
    /\ toastInDom' = [toastInDom EXCEPT ![t] = FALSE]
    /\ toastHover' = IF toastHover = t THEN 0 ELSE toastHover
    /\ toastQueue' = Without(toastQueue, t)
    /\ toastDur' = [toastDur EXCEPT ![t] = 0]
    /\ toastTimer' = [toastTimer EXCEPT ![t] = 0]
    /\ UNCHANGED <<toastCls, toastCount, toastButtons, notToastVars>>

\* The toasts of a page whose toasts carry no action button.
NextToast ==
    \/ \E d \in Durations : ShowToast(d, FALSE)
    \/ \E t \in ToastIds : DismissToast(t)
    \/ \E t \in ToastIds : ToastTimerFires(t)
    \/ \E t \in ToastIds : ToastMouseEnter(t)
    \/ \E t \in ToastIds : ToastMouseLeave(t)
    \/ \E t \in ToastIds : ToastTransitionEnd(t)

\* Toasts of the default duration only, none of them persistent.
NextTimed ==
    \/ ShowToast(DefaultDuration, FALSE)
    \/ \E t \in ToastIds : DismissToast(t)
    \/ \E t \in ToastIds : ToastTimerFires(t)
    \/ \E t \in ToastIds : ToastMouseEnter(t)
    \/ \E t \in ToastIds : ToastMouseLeave(t)
    \/ \E t \in ToastIds : ToastTransitionEnd(t)

\* A few toasts, with and without an action button.
NextAction ==
    \/ \E d \in {0, UndoDuration}, act \in BOOLEAN : ShowActionToast(d, act)
    \/ \E t \in ToastIds, throws \in BOOLEAN : ActivateToastAction(t, throws)
    \/ \E t \in ToastIds : DismissToast(t)
    \/ \E t \in ToastIds : ToastTimerFires(t)
    \/ \E t \in ToastIds : ToastMouseEnter(t)
    \/ \E t \in ToastIds : ToastMouseLeave(t)
    \/ \E t \in ToastIds : ToastTransitionEnd(t)

--------------------------------------------------------------------------
(* transactions.js: the debounced inline edit of a transaction row.       *)

\* setTimeout(() => saveTransaction(e), 300)
DEBOUNCE_MS == 300

\* Bound of the edit model.
MaxEdits == 2       \* edit events (blur / change) in one behaviour

\* The clock advances in steps of a third of the debounce delay.
TickMs == DEBOUNCE_MS \div 3

EditRows == {1, 2}
Fields == {"desc", "amount", "type"}

\* What the user can leave in a field, and what the page can show there.
TypedText(f) ==
    CASE f = "desc" -> {"rent", "food", " "}
      [] f = "amount" -> {"10", "20", "abc", "Infinity"}
      [] f = "type" -> {"income", "expense"}

\* String.prototype.trim()
Trim(text) == CASE text = " " -> "" [] text = " a" -> "a" [] OTHER -> text

\* parseFloat(amountEl.textContent.trim().replace("$", "")): the number the
\* text starts with (the text "Infinity" gives the number Infinity), NaN
\* when it starts with none.
NaN == [nan |-> TRUE, inf |-> FALSE, val |-> 0]
Infinity == [nan |-> FALSE, inf |-> TRUE, val |-> 0]
Num(n) == [nan |-> FALSE, inf |-> FALSE, val |-> n]
ParseAmount(text) ==
    CASE text \in {"10", "$10.00"} -> Num(10)
      [] text \in {"20", "$20.00"} -> Num(20)
      [] text \in {"Infinity", "$Infinity"} -> Infinity
      [] OTHER -> NaN

\* Number.isNaN(amount)
IsNaN(a) == a.nan

\* formatMoney(value): `$${num.toFixed(2)}`, "$0.00" for NaN
FormatMoney(a) ==
    CASE a.nan -> "$0.00"
      [] a.inf -> "$Infinity"
      [] a.val = 10 -> "$10.00"
      [] a.val = 20 -> "$20.00"
      [] OTHER -> "$0.00"

InitEdit ==
    /\ sinceEdit = 0
    /\ saveTimeout = 0
    /\ saveTimers = {}
    /\ rowText = [r \in EditRows |->
                    [desc |-> "rent", amount |-> "$10.00", type |-> "expense"]]
    /\ edits = <<>>
    /\ updSent = <<>>
    /\ updInFlight = {}
    /\ rowBusy = [r \in EditRows |-> FALSE]
    /\ rowPulse = [r \in EditRows |-> {}]
    /\ pulseTimers = {}
    /\ updToasts = [q \in 1..MaxEdits |-> ""]
    /\ ariaLive = ""

\* clearTimeout(saveTimeout): the pending timeouts that remain.  A timeout
\* is named by the edit event its callback holds.
ClearTimeoutKeepsIt(timers, handle) == timers
ClearTimeout(timers, handle) == timers \ {handle}

\* function debounceSaveTransaction(e), called by the blur listener of
\* .tx-desc / .tx-amount after the user left text v in the field, and by the
\* change listener of .tx-type.  The history entry of e records whether the
\* call comes less than DEBOUNCE_MS after the previous call (quick); the
\* entry of an edit whose timeout is cleared records the row of e (by).
EditField(r, f, v) ==
    /\ Len(edits) < MaxEdits
    /\ rowText' = [rowText EXCEPT ![r][f] = v]
    /\ LET e == Len(edits) + 1
           kept == ClearTimeout(saveTimers, saveTimeout)
           entry == [row |-> r, field |-> f, value |-> v,
                     quick |-> (edits # <<>> /\ sinceEdit < DEBOUNCE_MS),
                     st |-> "pending", by |-> 0, rewritten |-> FALSE,
                     read |-> "", readDesc |-> "", toast |-> ""]
           log == [i \in 1..Len(edits) |->
                     IF i \in saveTimers \ kept
                     THEN [edits[i] EXCEPT !.st = "cancelled", !.by = r]
                     ELSE edits[i]]
       IN  /\ edits' = Append(log, entry)
           /\ saveTimers' = kept \cup {e}
           /\ saveTimeout' = e
    /\ sinceEdit' = 0
    /\ UNCHANGED <<updSent, updInFlight, editFeedback, notEditVars>>

\* The payload saveTransaction(e) builds: it is read from the row of
\* e.target when the timeout fires.  (JSON.stringify writes the amount
\* Infinity as null.)
PayloadOf(e, text) ==
    [e |-> e, row |-> edits[e].row, desc |-> Trim(text.desc),
     amount |-> ParseAmount(text.amount), type |-> text.type]

\* A timeout set by debounceSaveTransaction fires, not before its delay has
\* passed, and runs saveTransaction(e) up to its fetch: the row is marked
\* busy; when the amount is NaN the mark is taken off again, the toast
\* "Invalid amount entered" is shown and no request is made.  The history
\* entry of e records the texts read and the toast shown.
SaveTimeoutFires(e) ==
    /\ e \in saveTimers
    /\ sinceEdit >= DEBOUNCE_MS
    /\ saveTimers' = saveTimers \ {e}
    /\ LET r == edits[e].row
           text == rowText[r]
           invalid == IsNaN(ParseAmount(text.amount))
       IN  /\ edits' = [edits EXCEPT ![e].st = "fired", ![e].read = text.amount,
                                     ![e].readDesc = text.desc,
                                     ![e].toast = IF invalid
                                                  THEN "Invalid amount entered"
                                                  ELSE ""]
           /\ rowBusy' = [rowBusy EXCEPT ![r] = ~invalid]
           /\ IF invalid
              THEN UNCHANGED <<updSent, updInFlight>>
              ELSE /\ updSent' = Append(updSent, PayloadOf(e, text))
                   /\ updInFlight' = updInFlight \cup {Len(updSent) + 1}
    /\ UNCHANGED <<sinceEdit, saveTimeout, rowText, rowPulse, pulseTimers,
                   updToasts, ariaLive, notEditVars>>

\* responseData?.message || "...": the message of each outcome, the server
\* sending none of its own; the network error has a fixed one.
UpdateMessage(outcome) ==
    CASE outcome = "ok" -> "Transaction updated successfully"
      [] outcome = "fail" -> "Transaction update failed"
      [] OTHER -> "Network error while updating transaction"

\* row.classList.add("bg-green-100") on success, "bg-red-100" otherwise
PulseClass(outcome) == IF outcome = "ok" THEN "bg-green-100" ELSE "bg-red-100"

\* setTimeout(() => row.classList.remove(cls), 1000); the timeout is named
\* by the request whose response set it.
NoPulseTimer(timers, q, row, cls) == timers
PulseTimer(timers, q, row, cls) == timers \cup {[q |-> q, row |-> row, cls |-> cls]}

\* The rest of saveTransaction: the response to request q arrives with a
\* 2xx status ("ok") or another one ("fail"), or the fetch rejects
\* ("neterr").  On success amountEl.textContent = formatMoney(amount), with
\* the amount that was sent; the history entry of an edit of that row whose
\* timeout is still pending records that the amount text was rewritten.
\* Every branch takes bg-yellow-100 and aria-busy off the row, gives it the
\* class of the outcome for a second, shows a toast and writes the message
\* of the toast to the live region.
UpdateResponse(q, outcome) ==
    /\ q \in updInFlight
    /\ updInFlight' = updInFlight \ {q}
    /\ rowBusy' = [rowBusy EXCEPT ![updSent[q].row] = FALSE]
    /\ LET r == updSent[q].row
       IN  /\ rowPulse' = [rowPulse EXCEPT ![r] = @ \cup {PulseClass(outcome)}]
           /\ pulseTimers' = PulseTimer(pulseTimers, q, r, PulseClass(outcome))
           /\ IF outcome = "ok"
              THEN /\ rowText' = [rowText EXCEPT
                                    ![r].amount = FormatMoney(updSent[q].amount)]
                   /\ edits' = [i \in 1..Len(edits) |->
                                  IF i \in saveTimers /\ edits[i].row = r
                                  THEN [edits[i] EXCEPT !.rewritten = TRUE]
                                  ELSE edits[i]]
              ELSE UNCHANGED <<rowText, edits>>
    /\ updToasts' = [updToasts EXCEPT ![q] = UpdateMessage(outcome)]
    /\ ariaLive' = UpdateMessage(outcome)
    /\ UNCHANGED <<sinceEdit, saveTimeout, saveTimers, updSent, notEditVars>>

\* A timeout set by saveTransaction a second before fires:
\* row.classList.remove(cls)
PulseTimeoutFires(t) ==
    /\ t \in pulseTimers
    /\ pulseTimers' = pulseTimers \ {t}
    /\ rowPulse' = [rowPulse EXCEPT ![t.row] = @ \ {t.cls}]
    /\ UNCHANGED <<sinceEdit, saveTimeout, saveTimers, rowText, edits, updSent,
                   updInFlight, rowBusy, updToasts, ariaLive, notEditVars>>

\* Time passes (the clock is kept up to the debounce delay).
Tick ==
    /\ sinceEdit < DEBOUNCE_MS
    /\ sinceEdit' = sinceEdit + TickMs
    /\ UNCHANGED <<saveTimeout, saveTimers, rowText, edits, updSent,
                   updInFlight, editFeedback, notEditVars>>

NextEdit ==
    \/ \E r \in EditRows, f \in Fields : \E v \in TypedText(f) : EditField(r, f, v)
    \/ \E e \in 1..MaxEdits : SaveTimeoutFires(e)
    \/ \E q \in 1..MaxEdits, o \in {"ok", "fail", "neterr"} : UpdateResponse(q, o)
    \/ \E q \in 1..MaxEdits, r \in EditRows, cls \in {"bg-green-100", "bg-red-100"} :
          PulseTimeoutFires([q |-> q, row |-> r, cls |-> cls])
    \/ Tick

--------------------------------------------------------------------------
(* chart.js: the cancellable chart refresh.                               *)

\* Bound of the chart model.
MaxCalls == 3       \* updateChartData calls in one behaviour

\* The bodies /api/finance_totals can answer with: two well-formed totals
\* and one whose income is a string.
Totals ==
    { [income |-> 100, expense |-> 40, incomeType |-> "number", expenseType |-> "number"],
      [income |-> 200, expense |-> 50, incomeType |-> "number", expenseType |-> "number"],
      [income |-> 100, expense |-> 40, incomeType |-> "string", expenseType |-> "number"] }

NoTotals == [income |-> 0, expense |-> 0, incomeType |-> "none", expenseType |-> "none"]

\* typeof data.income !== "number" || typeof data.expense !== "number"
InvalidFormat(d) == d.incomeType # "number" \/ d.expenseType # "number"

\* export let financeChartData = { income: 0, expense: 0 }
InitChartWith(lib) ==
    /\ chartLib = lib
    /\ chartCalls = <<>>
    /\ currentAbortController = 0
    /\ financeChartData = [income |-> 0, expense |-> 0]
    /\ spinners = {}
    /\ canvas = "blank"
    /\ fallbackBy = {}
    /\ initState = "start"
    /\ initAwaits = 0
    /\ retryCount = 0

Pending(c) == chartCalls[c].st # "done"

\* if (currentAbortController) currentAbortController.abort(): the signal of
\* the held controller is aborted; that matters to a call still awaiting
\* its fetch or its body.
AbortHeldSkipped(calls, held) == calls
AbortHeld(calls, held) ==
    IF held # 0 /\ calls[held].st # "done"
    THEN [calls EXCEPT ![held].aborted = TRUE]
    ELSE calls

\* initDashboardData({ maxRetries: 3, retryDelayMs: 1500 })
maxRetries == 3

\* The callers of updateChartData: the handlers of transactions.js, and the
\* loop of initDashboardDataWithRetry, on page load and after its delay.
Callers == {"handler", "init"}

\* while (retryCount <= maxRetries) { try { await updateChartData(); ...
\* The loop calls updateChartData when it starts and when the delay after a
\* caught rejection has passed.
InitCalls(caller, c) ==
    IF caller = "init"
    THEN /\ initState \in {"start", "delay"}
         /\ initState' = "await"
         /\ initAwaits' = c
         /\ UNCHANGED retryCount
    ELSE UNCHANGED initVars

\* export async function updateChartData(), to its await fetch.  The history
\* flag superseded marks every call that was pending when a later one began;
\* attempt counts the calls made for the same refresh, this one included.
UpdateChartData(caller) ==
    /\ chartLib
    /\ Len(chartCalls) < MaxCalls
    /\ LET c == Len(chartCalls) + 1
           signalled == AbortHeld(chartCalls, currentAbortController)
           marked == [i \in 1..Len(chartCalls) |->
                        IF Pending(i) THEN [signalled[i] EXCEPT !.superseded = TRUE]
                                      ELSE signalled[i]]
           call == [st |-> "fetch", aborted |-> FALSE, superseded |-> FALSE,
                    outcome |-> "none", err |-> "", data |-> NoTotals,
                    attempt |-> IF caller = "init" THEN retryCount + 1 ELSE 1]
       IN  /\ chartCalls' = Append(marked, call)
           /\ currentAbortController' = c
           /\ spinners' = spinners \cup {c}
           /\ InitCalls(caller, c)
    /\ UNCHANGED <<chartLib, financeChartData, canvas, fallbackBy, notChartVars>>

\* updateChartData without Chart.js: drawFallbackMessage(canvas, "Chart
\* unavailable") and return, before any fetch.  The loop of
\* initDashboardDataWithRetry that awaited it returns { ok: true }.
UpdateChartDataNoLib(caller) ==
    /\ ~chartLib
    /\ canvas' = "unavailable"
    /\ IF caller = "init"
       THEN /\ initState = "start"
            /\ initState' = "ok"
            /\ UNCHANGED <<initAwaits, retryCount>>
       ELSE UNCHANGED initVars
    /\ UNCHANGED <<chartLib, chartCalls, currentAbortController,
                   financeChartData, spinners, fallbackBy, notChartVars>>

\* Does the promise of an updateChartData call that has ended reject?  The
\* try block spans the fetch, the status test, the body and the drawing,
\* and the catch block throws nothing: the promise fulfils whatever the
\* outcome of the call.
Rejected(call) == FALSE

\* initDashboardDataWithRetry after await updateChartData(): return
\* { ok: true } when the promise fulfilled; in the catch block count the
\* retry, give up after maxRetries, otherwise wait retryDelayMs.
InitAwaitSettles ==
    /\ initState = "await"
    /\ chartCalls[initAwaits].st = "done"
    /\ IF Rejected(chartCalls[initAwaits])
       THEN /\ retryCount' = retryCount + 1
            /\ initState' = IF retryCount' > maxRetries THEN "failed" ELSE "delay"
       ELSE /\ initState' = "ok"
            /\ UNCHANGED retryCount
    /\ initAwaits' = 0
    /\ UNCHANGED <<chartLib, chartCalls, currentAbortController, financeChartData,
                   spinners, canvas, fallbackBy, notChartVars>>

\* initDashboard around its await of initDashboardDataWithRetry: the loading
\* indicator is in the page until the loop returns; then "dashboard-ready"
\* is dispatched for { ok: true }, else the error banner is prepended.
LoadingIndicator == initState \in {"start", "await", "delay"}
DashboardReady == initState = "ok"
ErrorBanner == initState = "failed"

\* if (err.name !== "AbortError") drawFallbackMessage(canvas, "Failed to load chart")
DrawsFallbackAlways(errName) == TRUE
DrawsFallback(errName) == errName # "AbortError"

\* finally { clearInterval(spinnerInterval); } of call c
ClearIntervalSkipped(running, c) == running
ClearInterval(running, c) == running \ {c}

\* The catch and finally blocks of updateChartData for call c; err keeps the
\* name of the error caught.
CatchFinally(c, errName, outcome) ==
    /\ chartCalls' = [chartCalls EXCEPT ![c].st = "done", ![c].outcome = outcome,
                                      ![c].err = errName]
    /\ IF DrawsFallback(errName)
       THEN canvas' = "fallback" /\ fallbackBy' = fallbackBy \cup {c}
       ELSE UNCHANGED <<canvas, fallbackBy>>
    /\ spinners' = ClearInterval(spinners, c)
    /\ UNCHANGED <<chartLib, currentAbortController, financeChartData,
                   initVars, notChartVars>>

\* The fetch of call c resolves: with a 2xx status the call goes on to
\* await res.json(), otherwise it throws Error("Network response was not ok").
ChartFetchResolves(c, ok) ==
    /\ c \in 1..Len(chartCalls)
    /\ chartCalls[c].st = "fetch" /\ ~chartCalls[c].aborted
    /\ IF ok
       THEN /\ chartCalls' = [chartCalls EXCEPT ![c].st = "json"]
            /\ UNCHANGED <<chartLib, currentAbortController, financeChartData,
                           spinners, canvas, fallbackBy, initVars, notChartVars>>
       ELSE CatchFinally(c, "Error", "failed")

\* The fetch of call c rejects with a network error (a TypeError).
ChartFetchRejects(c) ==
    /\ c \in 1..Len(chartCalls)
    /\ chartCalls[c].st = "fetch" /\ ~chartCalls[c].aborted
    /\ CatchFinally(c, "TypeError", "failed")

\* export function updateFinanceChart(income, expense):
\* financeChartData = { income, expense }
UpdateIncomeOnly(d) == [income |-> d.income, expense |-> financeChartData.expense]
UpdateFinanceChart(d) == [income |-> d.income, expense |-> d.expense]

\* res.json() of call c resolves with body d: a malformed body throws
\* Error("Invalid data format"), a well-formed one reaches updateFinanceChart.
ChartJsonResolves(c, d) ==
    /\ c \in 1..Len(chartCalls)
    /\ chartCalls[c].st = "json" /\ ~chartCalls[c].aborted
    /\ IF InvalidFormat(d)
       THEN CatchFinally(c, "Error", "failed")
       ELSE /\ financeChartData' = UpdateFinanceChart(d)
            /\ canvas' = "chart"
            /\ chartCalls' = [chartCalls EXCEPT ![c].st = "done",
                                  ![c].outcome = "ok", ![c].data = d]
            /\ spinners' = ClearInterval(spinners, c)
            /\ UNCHANGED <<chartLib, currentAbortController, fallbackBy,
                           initVars, notChartVars>>

\* res.json() of call c rejects: the body is not JSON (a SyntaxError).
ChartJsonRejects(c) ==
    /\ c \in 1..Len(chartCalls)
    /\ chartCalls[c].st = "json" /\ ~chartCalls[c].aborted
    /\ CatchFinally(c, "SyntaxError", "failed")

\* The await of a call whose signal was aborted (its fetch, or the reading
\* of its body) rejects with an AbortError; the continuation may run at any
\* later point.
ChartAbortRejects(c) ==
    /\ c \in 1..Len(chartCalls)
    /\ Pending(c) /\ chartCalls[c].aborted
    /\ CatchFinally(c, "AbortError", "aborted")

\* setInterval(() => drawSpinner(canvas, frame++), 50) of call c ticks.
SpinnerFrame(c) ==
    /\ c \in spinners
    /\ canvas' = "spinner"
    /\ UNCHANGED <<chartLib, chartCalls, currentAbortController,
                   financeChartData, spinners, fallbackBy, initVars, notChartVars>>

NextChart ==
    \/ \E caller \in Callers : UpdateChartData(caller)
    \/ \E caller \in Callers : UpdateChartDataNoLib(caller)
    \/ InitAwaitSettles
    \/ \E c \in 1..MaxCalls, ok \in BOOLEAN : ChartFetchResolves(c, ok)
    \/ \E c \in 1..MaxCalls : ChartFetchRejects(c)
    \/ \E c \in 1..MaxCalls, d \in Totals : ChartJsonResolves(c, d)
    \/ \E c \in 1..MaxCalls : ChartJsonRejects(c)
    \/ \E c \in 1..MaxCalls : ChartAbortRejects(c)
    \/ \E c \in 1..MaxCalls : SpinnerFrame(c)

--------------------------------------------------------------------------
(* transactions.js: the transaction list (#tx-list) and its requests.     *)
(* The server is not part of the repository; its endpoints follow the     *)
(* specification: ids are assigned by the server, a delete is soft and    *)
(* fills a single undo slot, /undo_delete_transaction restores the item   *)
(* of that slot and empties it, /reorder_transactions replaces the stored *)
(* order atomically.  The toasts of the handlers are counted by kind, and  *)
(* the chart and summary refresh that ends a handler is counted as one     *)
(* pass; what the refresh does is the subject of the chart model.          *)

\* Bounds of the list model.
MaxOps == 3         \* user operations (submit, delete, undo click, drop)
MaxFailures == 1    \* requests answered with an error status or not at all

\* The rows the page is rendered with, which the server holds in that order.
InitialIds == <<1, 2>>

Row(id, gen) == [id |-> id, gen |-> gen]

RECURSIVE DomIds(_)
\* Array.from(listEl.querySelectorAll('li[data-id]')).map(li => Number(li.dataset.id))
DomIdsFirstOnly(rows) == IF rows = <<>> THEN <<>> ELSE <<Head(rows).id>>
DomIds(rows) ==
    IF rows = <<>> THEN <<>> ELSE <<Head(rows).id>> \o DomIds(Tail(rows))

RemoveAt(s, i) == SubSeq(s, 1, i - 1) \o SubSeq(s, i + 1, Len(s))
InsertAt(s, i, x) == SubSeq(s, 1, i - 1) \o <<x>> \o SubSeq(s, i, Len(s))

\* Sortable moves the dragged row from index i to index j.
Move(s, i, j) == InsertAt(RemoveAt(s, i), j, s[i])

\* The toasts of the list handlers: showToast(msg, "error"), showToast(msg,
\* "success"), showToast(msg, "info"), and the "Transaction deleted" toast
\* that carries the Undo action.
ToastKinds == {"error", "success", "info", "undo"}

\* showToast(...) once more, of the kind given.
Toast(toasts, kind) == [toasts EXCEPT ![kind] = @ + 1]

InitList ==
    /\ txList = <<Row(1, 0), Row(2, 0)>>
    /\ requests = <<>>
    /\ persistedOrder = InitialIds
    /\ undoSlot = 0
    /\ userOps = 0
    /\ drops = 0
    /\ txBusy = {}
    /\ txToasts = [k \in ToastKinds |-> 0]
    /\ formResets = 0
    /\ txLastToast = ""
    /\ txRefreshes = 0

Request(kind, origin, id, gen, order) ==
    [kind |-> kind, origin |-> origin, id |-> id, gen |-> gen, order |-> order,
     st |-> "sent", res |-> "none"]

\* async function persistTransactionOrder(listEl), to its await fetch: the
\* requests it sends, none for a list without rows.
PersistNothing(rows, origin) == <<>>
PersistTransactionOrder(rows, origin) ==
    IF DomIds(rows) = <<>>
    THEN <<>>
    ELSE <<Request("reorder", origin, 0, 0, DomIds(rows))>>

\* The submit handler of the add form, with valid details, to its await fetch.
SubmitAdd ==
    /\ userOps < MaxOps
    /\ userOps' = userOps + 1
    /\ requests' = Append(requests, Request("add", "add", 0, 0, <<>>))
    /\ UNCHANGED <<txList, persistedOrder, undoSlot, drops, txFeedback, notListVars>>

\* The submit handler of the add form with no description, no amount or an
\* amount that parseFloat turns into NaN: showToast("Please provide valid
\* details", "error") and return.
SubmitAddInvalid ==
    /\ userOps < MaxOps
    /\ userOps' = userOps + 1
    /\ txToasts' = Toast(txToasts, "error")
    /\ txLastToast' = "Please provide valid details"
    /\ UNCHANGED <<txList, requests, persistedOrder, undoSlot, drops, txBusy,
                   formResets, txRefreshes, notListVars>>

\* The submit handler of a row's delete form, to its await fetch:
\* rowEl.setAttribute("aria-busy", "true") first.
SubmitDelete(i) ==
    /\ userOps < MaxOps
    /\ i \in 1..Len(txList)
    /\ userOps' = userOps + 1
    /\ txBusy' = txBusy \cup {txList[i]}
    /\ requests' = Append(requests,
                          Request("delete", "delete", txList[i].id, txList[i].gen, <<>>))
    /\ UNCHANGED <<txList, persistedOrder, undoSlot, drops, txToasts, formResets,
                   txLastToast, txRefreshes, notListVars>>

\* showToast("Transaction deleted", "info", 10000, { actionText: "Undo", ... })
\* has run: a delete was answered with a 2xx status.
UndoOffered ==
    \E q \in 1..Len(requests) :
        requests[q].kind = "delete" /\ requests[q].st = "done" /\ requests[q].res = "ok"

\* A click on the Undo button of a "Transaction deleted" toast:
\* undoDeleteTransaction(), to its await fetch.  The button stays in the
\* page until the toast's exit transition ends, so it can be clicked again;
\* how long the toast stays is left open here.
ClickUndo ==
    /\ userOps < MaxOps
    /\ UndoOffered
    /\ userOps' = userOps + 1
    /\ requests' = Append(requests, Request("undo", "undo", 0, 0, <<>>))
    /\ UNCHANGED <<txList, persistedOrder, undoSlot, drops, txFeedback, notListVars>>

\* Sortable's onEnd after a drag of row i to index j:
\* await persistTransactionOrder(list).
Drop(i, j) ==
    /\ userOps < MaxOps
    /\ i \in 1..Len(txList) /\ j \in 1..Len(txList)
    /\ userOps' = userOps + 1
    /\ drops' = drops + 1
    /\ txList' = Move(txList, i, j)
    /\ requests' = requests \o PersistTransactionOrder(txList', "drop")
    /\ UNCHANGED <<persistedOrder, undoSlot, txFeedback, notListVars>>

\* ---- the server
Live(id) == id \in Range(persistedOrder)

\* The id the server gives the next transaction.
NextId == Len(InitialIds) + 1 +
          Cardinality({q \in 1..Len(requests) :
                          requests[q].kind = "add" /\ requests[q].res = "ok"})

\* /reorder_transactions: the stored order becomes the order sent; ids that
\* are not live are ignored and live ids not listed keep their relative
\* order after the listed ones.
Reordered(stored, order) ==
    SelectSeq(order, LAMBDA x : x \in Range(stored)) \o
    SelectSeq(stored, LAMBDA x : x \notin Range(order))

Reply(q, res, id) ==
    [requests EXCEPT ![q].st = "replied", ![q].res = res, ![q].id = id]

\* The server answers request q with a 2xx status where it can; a new or
\* restored item takes index pos of the stored order.
ServerAccepts(q, pos) ==
    /\ q \in 1..Len(requests)
    /\ requests[q].st = "sent"
    /\ pos \in 1..(Len(persistedOrder) + 1)
    /\ LET r == requests[q] IN
       CASE r.kind = "add" ->
              /\ persistedOrder' = InsertAt(persistedOrder, pos, NextId)
              /\ requests' = Reply(q, "ok", NextId)
              /\ UNCHANGED undoSlot
         [] r.kind = "delete" ->
              /\ pos = 1
              /\ IF Live(r.id)
                 THEN /\ persistedOrder' = Without(persistedOrder, r.id)
                      /\ undoSlot' = r.id
                      /\ requests' = Reply(q, "ok", r.id)
                 ELSE /\ requests' = Reply(q, "fail", r.id)
                      /\ UNCHANGED <<persistedOrder, undoSlot>>
         [] r.kind = "undo" ->
              IF undoSlot # 0
              THEN /\ persistedOrder' = InsertAt(persistedOrder, pos, undoSlot)
                   /\ undoSlot' = 0
                   /\ requests' = Reply(q, "ok", undoSlot)
              ELSE /\ pos = 1
                   /\ requests' = Reply(q, "fail", 0)
                   /\ UNCHANGED <<persistedOrder, undoSlot>>
         [] r.kind = "reorder" ->
              /\ pos = 1
              /\ persistedOrder' = Reordered(persistedOrder, r.order)
              /\ requests' = Reply(q, "ok", 0)
              /\ UNCHANGED undoSlot
    /\ UNCHANGED <<txList, userOps, drops, txFeedback, notListVars>>

\* The requests that got an error status without cause, or no answer.
Failures ==
    Cardinality({q \in 1..Len(requests) :
                    \/ requests[q].res = "neterr"
                    \/ requests[q].res = "error"})

\* The server answers request q with an error status and changes nothing.
ServerRefuses(q) ==
    /\ q \in 1..Len(requests)
    /\ requests[q].st = "sent"
    /\ Failures < MaxFailures
    /\ requests' = Reply(q, "error", requests[q].id)
    /\ UNCHANGED <<txList, persistedOrder, undoSlot, userOps, drops,
                   txFeedback, notListVars>>

\* The fetch of request q rejects: the request never reached the server.
NetworkError(q) ==
    /\ q \in 1..Len(requests)
    /\ requests[q].st = "sent"
    /\ Failures < MaxFailures
    /\ requests' = Reply(q, "neterr", requests[q].id)
    /\ UNCHANGED <<txList, persistedOrder, undoSlot, userOps, drops,
                   txFeedback, notListVars>>

\* ---- the continuations of the handlers
DoneOrSentAgain(q) ==
    LET r == requests[q]
        done == [requests EXCEPT ![q].st = "done"]
    IN  IF r.res # "ok" /\ r.kind # "reorder"
        THEN Append(done, Request(r.kind, r.origin, r.id, r.gen, r.order))
        ELSE done
Done(q) == [requests EXCEPT ![q].st = "done"]

\* list.appendChild(newRow)
AppendRow(rows, row) == Append(rows, row)

\* list.prepend(restoredRow)
PrependRowLast(rows, row) == Append(rows, row)
PrependRow(rows, row) == <<row>> \o rows

\* rowEl.remove(): nothing happens for a row that is not in the list.
RemoveRow(rows, row) == Without(rows, row)

\* The rows after the add handler has read its answer:
\* if (!res.ok) { ...; return; } ... list.appendChild(newRow)
RowsAfterAddAnyStatus(rows, res, id) == AppendRow(rows, Row(id, 0))
RowsAfterAdd(rows, res, id) ==
    IF res = "ok" THEN AppendRow(rows, Row(id, 0)) ELSE rows

\* The text of the toast the add handler shows once its fetch has settled;
\* a message of the server's answer, which would replace the text of the
\* !res.ok branch, is left out.
AddMessage(res) ==
    IF res = "ok" THEN "Transaction added!" ELSE "Error adding transaction"

\* The add handler after its fetch: on a 2xx answer the row is appended,
\* "Transaction added!" shown and the order persisted; on any other answer,
\* or when the fetch rejects, an error toast is shown.
AddResponse(q) ==
    /\ q \in 1..Len(requests)
    /\ requests[q].kind = "add" /\ requests[q].st = "replied"
    /\ txList' = RowsAfterAdd(txList, requests[q].res, requests[q].id)
    /\ IF requests[q].res = "ok"
       THEN /\ txToasts' = Toast(txToasts, "success")
            /\ requests' = Done(q) \o PersistTransactionOrder(txList', "add")
       ELSE /\ txToasts' = Toast(txToasts, "error")
            /\ requests' = Done(q)
    /\ txLastToast' = AddMessage(requests[q].res)
    /\ UNCHANGED <<persistedOrder, undoSlot, userOps, drops, txBusy, formResets,
                   txRefreshes, notListVars>>

\* rowEl.removeAttribute("aria-busy")
BusyKept(busy, row) == busy
ClearBusy(busy, row) == busy \ {row}

\* The text of the toast the delete handler shows once its fetch has
\* settled (messages of the server's answer left out).
DeleteMessage(res) ==
    CASE res = "ok" -> "Transaction deleted"
      [] res = "neterr" -> "Network error while deleting transaction"
      [] OTHER -> "Delete failed"

\* The delete handler after its fetch: on a 2xx answer the row is removed
\* (and with it its attributes), the toast with the Undo action shown and
\* the order persisted; on any other answer, or when the fetch rejects, the
\* busy mark is taken off the row and an error toast shown.  With no row
\* left persistTransactionOrder returns at once and the handler goes on to
\* its awaits of updateChartData and updateSummaryUI.
DeleteResponse(q) ==
    /\ q \in 1..Len(requests)
    /\ requests[q].kind = "delete" /\ requests[q].st = "replied"
    /\ LET rowEl == Row(requests[q].id, requests[q].gen) IN
       IF requests[q].res = "ok"
       THEN /\ txList' = RemoveRow(txList, rowEl)
            /\ txBusy' = txBusy \ {rowEl}
            /\ txToasts' = Toast(txToasts, "undo")
            /\ requests' = Done(q) \o PersistTransactionOrder(txList', "delete")
            /\ txRefreshes' = IF PersistTransactionOrder(txList', "delete") = <<>>
                              THEN txRefreshes + 1
                              ELSE txRefreshes
       ELSE /\ txBusy' = ClearBusy(txBusy, rowEl)
            /\ txToasts' = Toast(txToasts, "error")
            /\ requests' = Done(q)
            /\ UNCHANGED <<txList, txRefreshes>>
    /\ txLastToast' = DeleteMessage(requests[q].res)
    /\ UNCHANGED <<persistedOrder, undoSlot, userOps, drops, formResets,
                   notListVars>>

\* The text of the toast undoDeleteTransaction shows once its fetch has
\* settled (messages of the server's answer left out).
UndoMessage(res) ==
    CASE res = "ok" -> "Transaction restored."
      [] res = "neterr" -> "Network error while undoing delete"
      [] OTHER -> "Undo failed"

\* undoDeleteTransaction after its fetch: on a 2xx answer the row of
\* row_html is prepended, a success toast shown and the order persisted;
\* otherwise an error toast.  The restored row is a new element, told apart
\* by the request that made it.
UndoResponse(q) ==
    /\ q \in 1..Len(requests)
    /\ requests[q].kind = "undo" /\ requests[q].st = "replied"
    /\ IF requests[q].res = "ok"
       THEN /\ txList' = PrependRow(txList, Row(requests[q].id, q))
            /\ txToasts' = Toast(txToasts, "success")
            /\ requests' = Done(q) \o PersistTransactionOrder(txList', "undo")
       ELSE /\ txToasts' = Toast(txToasts, "error")
            /\ requests' = Done(q)
            /\ UNCHANGED txList
    /\ txLastToast' = UndoMessage(requests[q].res)
    /\ UNCHANGED <<persistedOrder, undoSlot, userOps, drops, txBusy, formResets,
                   txRefreshes, notListVars>>

\* The toasts at the end of persistTransactionOrder and of the handler that
\* awaited it.  An answer that is not 2xx makes persistTransactionOrder show
\* an error toast and return; a rejected fetch is thrown on to the catch
\* block of the handler, which shows an error toast; onEnd shows "Order
\* saved" whenever persistTransactionOrder returns.
ToastsAfterPersist(toasts, origin, res) ==
    LET own == IF res = "ok" THEN toasts ELSE Toast(toasts, "error")
    IN  IF origin = "drop" /\ res # "neterr" THEN Toast(own, "success") ELSE own

\* The text of the toast in the catch block of the handler that awaited
\* persistTransactionOrder.
CatchMessage(origin) ==
    CASE origin = "add" -> "Error adding transaction"
      [] origin = "delete" -> "Network error while deleting transaction"
      [] origin = "undo" -> "Network error while undoing delete"
      [] origin = "drop" -> "Could not save order"

\* The text of the latest toast once persistTransactionOrder and the
\* handler that awaited it have ended.
LastToastAfterPersist(last, origin, res) ==
    CASE res = "neterr" -> CatchMessage(origin)
      [] res # "neterr" /\ origin = "drop" -> "Order saved"
      [] res \notin {"neterr", "ok"} /\ origin # "drop" -> "Failed to save order"
      [] OTHER -> last

\* await updateChartData(); await updateSummaryUI(); after the await of
\* persistTransactionOrder in the add, delete and undo handlers: reached
\* unless the fetch of persistTransactionOrder rejected.
Refreshes(origin, res) == origin # "drop" /\ res # "neterr"

\* persistTransactionOrder after its fetch, and the rest of the handler
\* that awaited it; the list is not touched.  The add handler ends with
\* form.reset(), after its awaits of updateChartData and updateSummaryUI,
\* unless the fetch was rejected.
ReorderResponse(q) ==
    /\ q \in 1..Len(requests)
    /\ requests[q].kind = "reorder" /\ requests[q].st = "replied"
    /\ requests' = Done(q)
    /\ txToasts' = ToastsAfterPersist(txToasts, requests[q].origin, requests[q].res)
    /\ formResets' = IF requests[q].origin = "add" /\ requests[q].res # "neterr"
                     THEN formResets + 1
                     ELSE formResets
    /\ txLastToast' = LastToastAfterPersist(txLastToast, requests[q].origin,
                                            requests[q].res)
    /\ txRefreshes' = IF Refreshes(requests[q].origin, requests[q].res)
                      THEN txRefreshes + 1
                      ELSE txRefreshes
    /\ UNCHANGED <<txList, persistedOrder, undoSlot, userOps, drops, txBusy,
                   notListVars>>

MaxRequests == 2 * MaxOps

NextList ==
    \/ SubmitAdd
    \/ SubmitAddInvalid
    \/ \E i \in 1..(Len(InitialIds) + MaxOps) : SubmitDelete(i)
    \/ ClickUndo
    \/ \E i, j \in 1..(Len(InitialIds) + MaxOps) : Drop(i, j)
    \/ \E q \in 1..MaxRequests, pos \in 1..(Len(InitialIds) + MaxOps + 1) :
          ServerAccepts(q, pos)
    \/ \E q \in 1..MaxRequests : ServerRefuses(q)
    \/ \E q \in 1..MaxRequests : NetworkError(q)
    \/ \E q \in 1..MaxRequests : AddResponse(q)
    \/ \E q \in 1..MaxRequests : DeleteResponse(q)
    \/ \E q \in 1..MaxRequests : UndoResponse(q)
    \/ \E q \in 1..MaxRequests : ReorderResponse(q)

--------------------------------------------------------------------------
(* transactions.js: the drag binding of #tx-list.                         *)
MaxSortableCalls == 3   \* calls of initTransactionSortable in one behaviour

InitSortableWith(lib, bound) ==
    /\ sortableLib = lib
    /\ sortableBound = bound
    /\ txSortables = IF bound THEN 1 ELSE 0
    /\ sortableCalls = IF bound THEN <<TRUE>> ELSE <<>>

\* if (list.dataset.sortableBound === "1") return;
NeverBound(bound) == FALSE
AlreadyBound(bound) == bound

\* function initTransactionSortable(), on a page that has #tx-list: return
\* when the list is marked or the library is missing, else make a Sortable
\* on the list and mark the list.
InitTransactionSortable ==
    /\ Len(sortableCalls) < MaxSortableCalls
    /\ sortableCalls' = Append(sortableCalls, sortableLib)
    /\ IF ~AlreadyBound(sortableBound) /\ sortableLib
       THEN txSortables' = txSortables + 1 /\ sortableBound' = TRUE
       ELSE UNCHANGED <<txSortables, sortableBound>>
    /\ UNCHANGED <<sortableLib, notSortVars>>

\* The vendor script of the drag library finishes loading.
SortableLoads ==
    /\ ~sortableLib
    /\ sortableLib' = TRUE
    /\ UNCHANGED <<sortableBound, txSortables, sortableCalls, notSortVars>>

\* A drag on a list that has a binding ends.
DragEnd(i, j) == txSortables > 0 /\ Drop(i, j)

NextSortable ==
    \/ InitTransactionSortable
    \/ SortableLoads
    \/ \E i, j \in 1..(Len(InitialIds) + MaxOps) : DragEnd(i, j)
    \/ \E q \in 1..MaxRequests, pos \in 1..(Len(InitialIds) + MaxOps + 1) :
          ServerAccepts(q, pos)
    \/ \E q \in 1..MaxRequests : ServerRefuses(q)
    \/ \E q \in 1..MaxRequests : NetworkError(q)
    \/ \E q \in 1..MaxRequests : ReorderResponse(q)

--------------------------------------------------------------------------
(* notes.js: the save of a note, and the note list with delete, undo and   *)
(* reorder.  Three versions of the script are modelled: "xhr", the blur    *)
(* save that sends X-Requested-With only; "csrf", the blur save that sends *)
(* the CSRF token as well; "list", the script of #note-list with its       *)
(* inline edit, delete with undo and drag reorder.                         *)
MaxNoteOps == 3     \* user operations on the notes in one behaviour
MaxNoteFailures == 3    \* note requests answered with an error status or not at all

NoteScripts == {"xhr", "csrf", "list"}

BlurScripts == {"xhr", "csrf"}

MAX_RETRIES == 2

InitialNotes == <<1, 2>>

NoteIds == Range(InitialNotes)

\* What the user leaves in a note: blanks only, or a text with a blank
\* before it.
TypedNote == {" ", " a"}

\* The headers of the fetch of saveNoteContent.
SaveHeaders(script) ==
    IF script = "xhr"
    THEN {"Content-Type", "X-Requested-With"}
    ELSE {"Content-Type", "X-Requested-With", "X-CSRFToken", "X-CSRF-Token"}

\* function ajaxHeader()
ajaxHeader == {"X-Requested-With"}

\* function buildHeaders(csrfToken, isJson)
buildHeaders(isJson) ==
    ajaxHeader \cup {"X-CSRFToken"} \cup (IF isJson THEN {"Content-Type"} ELSE {})

InitNoteWith(script) ==
    /\ noteScript = script
    /\ noteRows = <<Row(1, 0), Row(2, 0)>>
    /\ noteText = [n \in NoteIds |-> "n"]
    /\ noteTimer = <<>>
    /\ noteSaves = <<>>
    /\ noteRequests = <<>>
    /\ noteIndicator = [n \in NoteIds |-> 0]
    /\ noteServer = [live |-> NoteIds, trash |-> 0]
    /\ noteOps = 0
    /\ noteToasts = [k \in ToastKinds |-> 0]

\* No row: null for a row element.
NoRow == Row(0, 0)

\* A fetch of the notes script: note is the id in its URL or in its answer,
\* save the note save it belongs to, retries the argument of that name, ind
\* the indicator element its call holds, row the row whose form was
\* submitted and rowNext the row that followed it.
NoteRequest(kind, note, body, headers, save, retries, ind, row, rowNext) ==
    [kind |-> kind, note |-> note, body |-> body, headers |-> headers,
     save |-> save, retries |-> retries, ind |-> ind, row |-> row,
     rowNext |-> rowNext, st |-> "sent", res |-> "none"]

NoteSave(note, st, toasts) == [note |-> note, st |-> st, toasts |-> toasts]

NoteRowIds == {noteRows[i].id : i \in 1..Len(noteRows)}

\* The user types in a note of the list.  The "list" script handles the
\* input event: it clears the pending timeout and sets one of 350 ms that
\* holds the trimmed text; the blur scripts have no handler for it.
NoteInput(n, text) ==
    /\ noteOps < MaxNoteOps
    /\ n \in NoteRowIds
    /\ noteOps' = noteOps + 1
    /\ noteText' = [noteText EXCEPT ![n] = text]
    /\ noteTimer' = IF noteScript = "list"
                    THEN <<[note |-> n, content |-> Trim(text)]>>
                    ELSE noteTimer
    /\ UNCHANGED <<noteScript, noteRows, noteSaves, noteRequests, noteIndicator,
                   noteServer, noteToasts, notNoteVars>>

\* The blur handler of a note: clearTimeout(debounceTimeout) and a new
\* timeout of DEBOUNCE_DELAY that holds the element.
NoteBlur(n) ==
    /\ noteScript \in BlurScripts
    /\ noteOps < MaxNoteOps
    /\ n \in NoteRowIds
    /\ noteOps' = noteOps + 1
    /\ noteTimer' = <<[note |-> n, content |-> ""]>>
    /\ UNCHANGED <<noteScript, noteRows, noteText, noteSaves, noteRequests,
                   noteIndicator, noteServer, noteToasts, notNoteVars>>

\* ensureSavingIndicator(el): the indicator next to the note, a new one
\* (told apart by the request whose call made it) when there is none.
EnsureSavingIndicator(ind, q) == IF ind = 0 THEN q ELSE ind

\* indicator.remove()
RemoveIndicator(inDom, ind) == IF inDom = ind THEN 0 ELSE inDom

\* The timeout of the blur handler fires: saveNoteContent(el.dataset.noteId,
\* el.textContent, el) to its await fetch.  It returns at once for a text
\* that trims to nothing.
NoteDebounceFires ==
    /\ noteScript \in BlurScripts
    /\ noteTimer # <<>>
    /\ noteTimer' = <<>>
    /\ LET n == noteTimer[1].note
           trimmed == Trim(noteText[n])
           q == Len(noteRequests) + 1
           ind == EnsureSavingIndicator(noteIndicator[n], q)
       IN  IF trimmed = ""
           THEN /\ noteSaves' = Append(noteSaves, NoteSave(n, "ended", <<>>))
                /\ UNCHANGED <<noteRequests, noteIndicator>>
           ELSE /\ noteSaves' = Append(noteSaves, NoteSave(n, "saving", <<>>))
                /\ noteIndicator' = [noteIndicator EXCEPT ![n] = ind]
                /\ noteRequests' =
                       Append(noteRequests,
                              NoteRequest("update", n, trimmed, SaveHeaders(noteScript),
                                          Len(noteSaves) + 1, 0, ind, NoRow, NoRow))
    /\ UNCHANGED <<noteScript, noteRows, noteText, noteServer, noteOps, noteToasts,
                   notNoteVars>>

\* if (retries < MAX_RETRIES)
MayRetry(retries) == retries < MAX_RETRIES

NoteDone(q) == [noteRequests EXCEPT ![q].st = "done"]

EndSave(s, kind) ==
    [noteSaves EXCEPT ![s].st = "ended", ![s].toasts = Append(@, kind)]

\* saveNoteContent after its fetch.  A 2xx answer: showToast("Note saved").
\* Any other answer or a rejected fetch: with retries left, "return
\* saveNoteContent(noteId, content, el, retries + 1)", which runs the new
\* call to its await fetch before the finally block of this one; with none
\* left, an error toast.  The finally block removes the indicator this call
\* holds.
SaveNoteResponse(q) ==
    /\ noteScript \in BlurScripts
    /\ q \in 1..Len(noteRequests)
    /\ noteRequests[q].kind = "update" /\ noteRequests[q].st = "replied"
    /\ LET r == noteRequests[q]
           n == r.note
           ind == EnsureSavingIndicator(noteIndicator[n], Len(noteRequests) + 1)
       IN  IF r.res = "ok"
           THEN /\ noteSaves' = EndSave(r.save, "success")
                /\ noteRequests' = NoteDone(q)
                /\ noteIndicator' =
                       [noteIndicator EXCEPT ![n] = RemoveIndicator(@, r.ind)]
           ELSE IF MayRetry(r.retries)
           THEN /\ noteRequests' =
                       Append(NoteDone(q),
                              NoteRequest("update", n, r.body, r.headers, r.save,
                                          r.retries + 1, ind, NoRow, NoRow))
                /\ noteIndicator' =
                       [noteIndicator EXCEPT ![n] = RemoveIndicator(ind, r.ind)]
                /\ UNCHANGED noteSaves
           ELSE /\ noteSaves' = EndSave(r.save, "error")
                /\ noteRequests' = NoteDone(q)
                /\ noteIndicator' =
                       [noteIndicator EXCEPT ![n] = RemoveIndicator(@, r.ind)]
    /\ UNCHANGED <<noteScript, noteRows, noteText, noteTimer, noteServer, noteOps,
                   noteToasts, notNoteVars>>

\* The timeout of the input handler fires: an error toast for an empty
\* text, else the fetch of /update_note with buildHeaders(csrfToken, true).
InlineSaveFires ==
    /\ noteScript = "list"
    /\ noteTimer # <<>>
    /\ noteTimer' = <<>>
    /\ LET n == noteTimer[1].note
           content == noteTimer[1].content
       IN  IF content = ""
           THEN /\ noteSaves' = Append(noteSaves, NoteSave(n, "ended", <<"error">>))
                /\ UNCHANGED noteRequests
           ELSE /\ noteSaves' = Append(noteSaves, NoteSave(n, "saving", <<>>))
                /\ noteRequests' =
                       Append(noteRequests,
                              NoteRequest("update", n, content, buildHeaders(TRUE),
                                          Len(noteSaves) + 1, 0, 0, NoRow, NoRow))
    /\ UNCHANGED <<noteScript, noteRows, noteText, noteIndicator, noteServer, noteOps,
                   noteToasts, notNoteVars>>

\* The timeout callback of the input handler after its fetch: an error
\* toast unless the answer is 2xx, and nothing else.
InlineSaveResponse(q) ==
    /\ noteScript = "list"
    /\ q \in 1..Len(noteRequests)
    /\ noteRequests[q].kind = "update" /\ noteRequests[q].st = "replied"
    /\ noteRequests' = NoteDone(q)
    /\ noteSaves' =
           IF noteRequests[q].res = "ok"
           THEN [noteSaves EXCEPT ![noteRequests[q].save].st = "ended"]
           ELSE EndSave(noteRequests[q].save, "error")
    /\ UNCHANGED <<noteScript, noteRows, noteText, noteTimer, noteIndicator,
                   noteServer, noteOps, noteToasts, notNoteVars>>

\* The submit handler of a row's delete form, to its await fetch; it keeps
\* row.nextElementSibling.
NoteDeleteSubmit(i) ==
    /\ noteScript = "list"
    /\ noteOps < MaxNoteOps
    /\ i \in 1..Len(noteRows)
    /\ noteOps' = noteOps + 1
    /\ noteRequests' =
           Append(noteRequests,
                  NoteRequest("delete", noteRows[i].id, "", buildHeaders(FALSE), 0, 0, 0,
                              noteRows[i],
                              IF i < Len(noteRows) THEN noteRows[i + 1] ELSE NoRow))
    /\ UNCHANGED <<noteScript, noteRows, noteText, noteTimer, noteSaves,
                   noteIndicator, noteServer, noteToasts, notNoteVars>>

\* The submit handler after its fetch: an error toast unless the answer is
\* 2xx, else row.remove() and the "Note deleted" toast with its Undo action.
NoteDeleteResponse(q) ==
    /\ noteScript = "list"
    /\ q \in 1..Len(noteRequests)
    /\ noteRequests[q].kind = "delete" /\ noteRequests[q].st = "replied"
    /\ noteRequests' = NoteDone(q)
    /\ IF noteRequests[q].res = "ok"
       THEN /\ noteRows' = Without(noteRows, noteRequests[q].row)
            /\ noteToasts' = Toast(noteToasts, "undo")
       ELSE /\ noteToasts' = Toast(noteToasts, "error")
            /\ UNCHANGED noteRows
    /\ UNCHANGED <<noteScript, noteText, noteTimer, noteSaves, noteIndicator,
                   noteServer, noteOps, notNoteVars>>

\* A click on the Undo button of the "Note deleted" toast of delete d: the
\* onAction callback to its await fetch, which names no note; the callback
\* closes over the row and the next row of that delete.  How long the toast
\* stays is left open.
NoteUndoClick(d) ==
    /\ noteScript = "list"
    /\ noteOps < MaxNoteOps
    /\ d \in 1..Len(noteRequests)
    /\ noteRequests[d].kind = "delete" /\ noteRequests[d].st = "done"
    /\ noteRequests[d].res = "ok"
    /\ noteOps' = noteOps + 1
    /\ noteRequests' =
           Append(noteRequests,
                  NoteRequest("undo", 0, "", buildHeaders(FALSE), 0, 0, 0,
                              noteRequests[d].row, noteRequests[d].rowNext))
    /\ UNCHANGED <<noteScript, noteRows, noteText, noteTimer, noteSaves,
                   noteIndicator, noteServer, noteToasts, notNoteVars>>

\* Where the row of row_html goes: before the row that followed the deleted
\* one if that row is still in the list, else at the end of the list.
Reinsert(rows, rowNext, row) ==
    IF \E i \in 1..Len(rows) : rows[i] = rowNext
    THEN InsertAt(rows, CHOOSE i \in 1..Len(rows) : rows[i] = rowNext, row)
    ELSE Append(rows, row)

\* The onAction callback after its fetch: an error toast for an answer that
\* is not 2xx, for one without row_html and for a rejected fetch; else the
\* row of row_html is inserted, a new element told apart by the request
\* that made it.
NoteUndoResponse(q) ==
    /\ noteScript = "list"
    /\ q \in 1..Len(noteRequests)
    /\ noteRequests[q].kind = "undo" /\ noteRequests[q].st = "replied"
    /\ noteRequests' = NoteDone(q)
    /\ IF noteRequests[q].res = "ok"
       THEN /\ noteRows' = Reinsert(noteRows, noteRequests[q].rowNext,
                                    Row(noteRequests[q].note, q))
            /\ UNCHANGED noteToasts
       ELSE /\ noteToasts' = Toast(noteToasts, "error")
            /\ UNCHANGED noteRows
    /\ UNCHANGED <<noteScript, noteText, noteTimer, noteSaves, noteIndicator,
                   noteServer, noteOps, notNoteVars>>

\* onEnd of the Sortable on #note-list after a drag of row i to index j:
\* the fetch of /reorder_notes with getOrder().
NoteDragEnd(i, j) ==
    /\ noteScript = "list"
    /\ noteOps < MaxNoteOps
    /\ i \in 1..Len(noteRows) /\ j \in 1..Len(noteRows)
    /\ noteOps' = noteOps + 1
    /\ noteRows' = Move(noteRows, i, j)
    /\ noteRequests' =
           Append(noteRequests,
                  NoteRequest("reorder", 0, DomIds(noteRows'), buildHeaders(TRUE),
                              0, 0, 0, NoRow, NoRow))
    /\ UNCHANGED <<noteScript, noteText, noteTimer, noteSaves, noteIndicator,
                   noteServer, noteToasts, notNoteVars>>

\* onEnd after its fetch: an error toast unless the answer is 2xx.
NoteReorderResponse(q) ==
    /\ noteScript = "list"
    /\ q \in 1..Len(noteRequests)
    /\ noteRequests[q].kind = "reorder" /\ noteRequests[q].st = "replied"
    /\ noteRequests' = NoteDone(q)
    /\ noteToasts' = IF noteRequests[q].res = "ok"
                     THEN noteToasts
                     ELSE Toast(noteToasts, "error")
    /\ UNCHANGED <<noteScript, noteRows, noteText, noteTimer, noteSaves,
                   noteIndicator, noteServer, noteOps, notNoteVars>>

\* ---- the server of the notes
NoteReply(q, res, note) ==
    [noteRequests EXCEPT ![q].st = "replied", ![q].res = res, ![q].note = note]

\* The server answers request q with a 2xx status: a delete of a live note
\* puts it in the trash, an undo takes the note of the trash back ("nohtml"
\* for an answer that carries no row_html).
NoteServerAccepts(q, res) ==
    /\ q \in 1..Len(noteRequests)
    /\ noteRequests[q].st = "sent"
    /\ LET r == noteRequests[q]
       IN  CASE r.kind = "delete" ->
                  /\ res = "ok"
                  /\ r.note \in noteServer.live
                  /\ noteServer' = [live |-> noteServer.live \ {r.note},
                                    trash |-> r.note]
                  /\ noteRequests' = NoteReply(q, res, r.note)
             [] r.kind = "undo" ->
                  /\ noteServer.trash # 0
                  /\ noteServer' = [live |-> noteServer.live \cup {noteServer.trash},
                                    trash |-> 0]
                  /\ noteRequests' = NoteReply(q, res, noteServer.trash)
             [] OTHER ->
                  /\ res = "ok"
                  /\ noteRequests' = NoteReply(q, res, r.note)
                  /\ UNCHANGED noteServer
    /\ UNCHANGED <<noteScript, noteRows, noteText, noteTimer, noteSaves,
                   noteIndicator, noteOps, noteToasts, notNoteVars>>

NoteFailures ==
    Cardinality({q \in 1..Len(noteRequests) :
                    noteRequests[q].res \in {"fail", "neterr"}})

\* The server answers request q with an error status ("fail"), or the
\* fetch is rejected ("neterr").
NoteServerRefuses(q, res) ==
    /\ NoteFailures < MaxNoteFailures
    /\ q \in 1..Len(noteRequests)
    /\ noteRequests[q].st = "sent"
    /\ noteRequests' = NoteReply(q, res, noteRequests[q].note)
    /\ UNCHANGED <<noteScript, noteRows, noteText, noteTimer, noteSaves,
                   noteIndicator, noteServer, noteOps, noteToasts, notNoteVars>>

MaxNoteRequests == MaxNoteOps + MaxNoteFailures

NextNote ==
    \/ \E n \in NoteIds, text \in TypedNote : NoteInput(n, text)
    \/ \E n \in NoteIds : NoteBlur(n)
    \/ NoteDebounceFires
    \/ \E q \in 1..MaxNoteRequests : SaveNoteResponse(q)
    \/ InlineSaveFires
    \/ \E q \in 1..MaxNoteRequests : InlineSaveResponse(q)
    \/ \E i \in 1..Len(InitialNotes) : NoteDeleteSubmit(i)
    \/ \E q \in 1..MaxNoteRequests : NoteDeleteResponse(q)
    \/ \E d \in 1..MaxNoteRequests : NoteUndoClick(d)
    \/ \E q \in 1..MaxNoteRequests : NoteUndoResponse(q)
    \/ \E i, j \in 1..Len(InitialNotes) : NoteDragEnd(i, j)
    \/ \E q \in 1..MaxNoteRequests : NoteReorderResponse(q)
    \/ \E q \in 1..MaxNoteRequests, res \in {"ok", "nohtml"} : NoteServerAccepts(q, res)
    \/ \E q \in 1..MaxNoteRequests, res \in {"fail", "neterr"} : NoteServerRefuses(q, res)

--------------------------------------------------------------------------
(* transactions.js: updateSummaryUI, the re-fetch of the finance totals.   *)
MaxSummaryCalls == 3    \* calls of updateSummaryUI in one behaviour

\* What GET /api/finance_totals can answer: income, expense and their
\* difference, as JSON numbers.
FinanceTotals ==
    {[income |-> i, expense |-> e, balance |-> i - e] :
        <<i, e>> \in {<<0, 0>>, <<10, 0>>, <<10, 10>>, <<20, 0>>, <<20, 10>>, <<20, 20>>}}

ZeroTotals == [income |-> 0, expense |-> 0, balance |-> 0]

\* Number(value) of a JSON number
ToNumber(value) == Num(value)

\* incomeEl.textContent = formatMoney(data.income), and so for the others
SummaryOf(data) ==
    [income  |-> FormatMoney(ToNumber(data.income)),
     expense |-> FormatMoney(ToNumber(data.expense)),
     balance |-> FormatMoney(ToNumber(data.balance))]

\* The page as the server rendered it from the totals it had then.
InitSummaryWith(data) ==
    /\ summaryCalls = <<>>
    /\ summaryText = SummaryOf(data)

SummaryIds == 1..Len(summaryCalls)

\* updateSummaryUI() up to its fetch: the three elements are on the page,
\* the request for the totals is sent.  Nothing in the function tells one
\* call from another.
UpdateSummaryUI ==
    /\ Len(summaryCalls) < MaxSummaryCalls
    /\ summaryCalls' = Append(summaryCalls, [st |-> "sent", data |-> ZeroTotals])
    /\ UNCHANGED <<summaryText, notSummaryVars>>

\* The fetch of call c is answered 2xx with the totals data: the rest of the
\* try block writes the three texts.
SummaryResponse(c, data) ==
    /\ c \in SummaryIds /\ summaryCalls[c].st = "sent"
    /\ data \in FinanceTotals
    /\ summaryCalls' = [summaryCalls EXCEPT ![c] = [st |-> "ok", data |-> data]]
    /\ summaryText' = SummaryOf(data)
    /\ UNCHANGED notSummaryVars

\* The fetch of call c is answered with an error status, or rejects: the
\* catch block warns on the console.
SummaryFails(c, res) ==
    /\ c \in SummaryIds /\ summaryCalls[c].st = "sent"
    /\ res \in {"error", "neterr"}
    /\ summaryCalls' = [summaryCalls EXCEPT ![c] = [st |-> res, data |-> ZeroTotals]]
    /\ UNCHANGED <<summaryText, notSummaryVars>>

NextSummary ==
    \/ UpdateSummaryUI
    \/ \E c \in 1..MaxSummaryCalls, data \in FinanceTotals : SummaryResponse(c, data)
    \/ \E c \in 1..MaxSummaryCalls, res \in {"error", "neterr"} : SummaryFails(c, res)

--------------------------------------------------------------------------
(* widgets.js: the order of the dashboard widgets, kept in localStorage.   *)
MaxWidgetOps == 3   \* page loads and drags in one behaviour

\* The ids of the widgets a page can hold.
Widgets == {"w1", "w2", "w3"}

\* The children a page can render: some of the widgets, in any order.
Renderings ==
    {r \in UNION {[1..n -> Widgets] : n \in 0..Cardinality(Widgets)} :
        \A i, j \in 1..Len(r) : i # j => r[i] # r[j]}

\* localStorage.getItem("widgetOrder") when nothing was stored: null.
NoItem == [json |-> "null", order |-> <<>>]

\* JSON.stringify(order)
Stringify(order) == [json |-> "array", order |-> order]

\* JSON.parse(item): null for the item null, else the array.
Null == [null |-> TRUE, order |-> <<>>]
Parse(item) ==
    IF item.json = "null" THEN Null ELSE [null |-> FALSE, order |-> item.order]

\* container.appendChild(widgetMap[id]): the child moves to the end.
AppendChildInPlace(children, id) == children
AppendChild(children, id) == Without(children, id) \o <<id>>

RECURSIVE RestoreOrder(_, _, _)
\* savedOrder.forEach(id => { if (widgetMap[id]) container.appendChild(widgetMap[id]); })
\* with widgetMap made of the children the page rendered.
RestoreOrder(children, rendered, saved) ==
    IF saved = <<>>
    THEN children
    ELSE RestoreOrder(IF Head(saved) \in Range(rendered)
                      THEN AppendChild(children, Head(saved))
                      ELSE children,
                      rendered, Tail(saved))

\* initWidgetSorting(), its restore: if (savedOrder && savedOrder.length)
InitWidgetSorting(rendered, item) ==
    LET savedOrder == Parse(item)
    IN  IF ~savedOrder.null /\ Len(savedOrder.order) > 0
        THEN RestoreOrder(rendered, rendered, savedOrder.order)
        ELSE rendered

\* The first load of the page, with nothing stored.
InitWidgetWith(rendered) ==
    /\ widgetRendered = rendered
    /\ widgetStored = NoItem
    /\ widgetChildren = InitWidgetSorting(widgetRendered, widgetStored)
    /\ widgetPhase = "loaded"
    /\ widgetOps = 0

\* The page is loaded again: DOMContentLoaded, initDashboard, initWidgetSorting.
WidgetPageLoad(rendered) ==
    /\ widgetOps < MaxWidgetOps
    /\ rendered \in Renderings
    /\ widgetOps' = widgetOps + 1
    /\ widgetRendered' = rendered
    /\ widgetChildren' = InitWidgetSorting(rendered, widgetStored)
    /\ widgetPhase' = "loaded"
    /\ UNCHANGED <<widgetStored, notWidgetVars>>

\* A drag of child i to index j ends: onEnd stores the ids of the children.
WidgetDragEnd(i, j) ==
    /\ widgetOps < MaxWidgetOps
    /\ i \in 1..Len(widgetChildren) /\ j \in 1..Len(widgetChildren)
    /\ widgetOps' = widgetOps + 1
    /\ widgetChildren' = Move(widgetChildren, i, j)
    /\ widgetStored' = Stringify(widgetChildren')
    /\ widgetPhase' = "dragged"
    /\ UNCHANGED <<widgetRendered, notWidgetVars>>

NextWidget ==
    \/ \E rendered \in Renderings : WidgetPageLoad(rendered)
    \/ \E i, j \in 1..Cardinality(Widgets) : WidgetDragEnd(i, j)

--------------------------------------------------------------------------
\* The page after DOMContentLoaded, with the libraries loaded.
Init ==
    /\ InitToast /\ InitEdit /\ InitChartWith(TRUE) /\ InitList
    /\ InitSortableWith(TRUE, TRUE) /\ InitNoteWith("list")
    /\ InitWidgetWith(<<"w1", "w2", "w3">>)
    /\ InitSummaryWith(ZeroTotals)

SpecToast == Init /\ [][NextToast]_vars

SpecAction == Init /\ [][NextAction]_vars

\* setTimeout(() => removeToast(toast), duration): a timeout that is not
\* cleared fires.
FairTimers == \A t \in ToastIds : WF_vars(ToastTimerFires(t))

\* The removal animation of a toast in the exit state ends: the style sheet
\* gives the toast an opacity transition, whose end the browser reports.
FairTransitions == \A t \in ToastIds : WF_vars(ToastTransitionEnd(t))

FairToast == FairTimers /\ FairTransitions

\* The toasts of a page that shows toasts of the default duration only.
LiveToast == Init /\ [][NextTimed]_vars /\ FairToast

SpecEdit == Init /\ [][NextEdit]_vars

\* The chart refresh, on a page with and on a page without Chart.js.
InitChart ==
    /\ InitToast /\ InitEdit /\ InitList
    /\ InitSortableWith(TRUE, TRUE) /\ InitNoteWith("list")
    /\ InitWidgetWith(<<"w1", "w2", "w3">>)
    /\ InitSummaryWith(ZeroTotals)
    /\ \E lib \in BOOLEAN : InitChartWith(lib)

SpecChart == InitChart /\ [][NextChart]_vars

SpecList == Init /\ [][NextList]_vars

\* ---- the mutations of a transaction, the inline edit and the list together
MaxMutations == 2   \* mutations the user starts in one behaviour

Mutations == userOps + Len(edits)

MutateAdd == Mutations < MaxMutations /\ SubmitAdd
MutateDelete(i) == Mutations < MaxMutations /\ SubmitDelete(i)
MutateUndo == Mutations < MaxMutations /\ ClickUndo
MutateEdit(r, f, v) == Mutations < MaxMutations /\ EditField(r, f, v)

\* A page on which the user adds, deletes, restores and edits transactions
\* and drags none.
NextMutation ==
    \/ MutateAdd
    \/ \E i \in 1..(Len(InitialIds) + MaxMutations) : MutateDelete(i)
    \/ MutateUndo
    \/ \E r \in EditRows, f \in Fields : \E v \in TypedText(f) : MutateEdit(r, f, v)
    \/ \E q \in 1..MaxRequests, pos \in 1..(Len(InitialIds) + MaxOps + 1) :
          ServerAccepts(q, pos)
    \/ \E q \in 1..MaxRequests : ServerRefuses(q)
    \/ \E q \in 1..MaxRequests : NetworkError(q)
    \/ \E q \in 1..MaxRequests : AddResponse(q)
    \/ \E q \in 1..MaxRequests : DeleteResponse(q)
    \/ \E q \in 1..MaxRequests : UndoResponse(q)
    \/ \E q \in 1..MaxRequests : ReorderResponse(q)
    \/ \E e \in 1..MaxEdits : SaveTimeoutFires(e)
    \/ \E q \in 1..MaxEdits, o \in {"ok", "fail", "neterr"} : UpdateResponse(q, o)
    \/ \E q \in 1..MaxEdits, r \in EditRows, cls \in {"bg-green-100", "bg-red-100"} :
          PulseTimeoutFires([q |-> q, row |-> r, cls |-> cls])
    \/ Tick

SpecMutation == Init /\ [][NextMutation]_vars

\* initTransactionSortable called any number of times, from a page whose
\* list has no binding yet, with the drag library loaded or still loading.
InitSortable ==
    /\ InitToast /\ InitEdit /\ InitChartWith(TRUE) /\ InitList
    /\ InitNoteWith("list")
    /\ InitWidgetWith(<<"w1", "w2", "w3">>)
    /\ InitSummaryWith(ZeroTotals)
    /\ \E lib \in BOOLEAN : InitSortableWith(lib, FALSE)

SpecSortable == InitSortable /\ [][NextSortable]_vars

\* The notes, under each version of the notes script.
InitNote ==
    /\ InitToast /\ InitEdit /\ InitChartWith(TRUE) /\ InitList
    /\ InitSortableWith(TRUE, TRUE)
    /\ InitWidgetWith(<<"w1", "w2", "w3">>)
    /\ InitSummaryWith(ZeroTotals)
    /\ \E script \in NoteScripts : InitNoteWith(script)

SpecNote == InitNote /\ [][NextNote]_vars

\* The widgets, from a first load that renders them in any order.
InitWidget ==
    /\ InitToast /\ InitEdit /\ InitChartWith(TRUE) /\ InitList
    /\ InitSortableWith(TRUE, TRUE) /\ InitNoteWith("list")
    /\ InitSummaryWith(ZeroTotals)
    /\ \E r \in Renderings : Len(r) = Cardinality(Widgets) /\ InitWidgetWith(r)

SpecWidget == InitWidget /\ [][NextWidget]_vars

\* The summary, on a page rendered from any totals.
InitSummary ==
    /\ InitToast /\ InitEdit /\ InitChartWith(TRUE) /\ InitList
    /\ InitSortableWith(TRUE, TRUE) /\ InitNoteWith("list")
    /\ InitWidgetWith(<<"w1", "w2", "w3">>)
    /\ \E data \in FinanceTotals : InitSummaryWith(data)

SpecSummary == InitSummary /\ [][NextSummary]_vars

--------------------------------------------------------------------------
(* Claims on the toast queue (SpecToast).                                 *)

Tracked(t) == t \in Range(toastQueue)

\* A showToast call is the only step that raises toastCount.
IsShowToastStep == toastCount' = toastCount + 1

\* C1: the queue never tracks more than MAX_TOASTS toasts, every toast that
\* has not been dismissed (it does not carry "exit") is tracked, and a
\* showToast call made with MAX_TOASTS toasts tracked dismisses the oldest
\* tracked toast and drops it from the queue before it appends the new one.
C1_ToastQueueBounded ==
    /\ [](Len(toastQueue) <= MAX_TOASTS)
    /\ [](\A t \in ToastIds : toastCls[t] = "visible" => Tracked(t))
    /\ [][(IsShowToastStep /\ Len(toastQueue) = MAX_TOASTS) =>
            /\ toastCls'[Head(toastQueue)] = "exit"
            /\ toastQueue' = Append(Tail(toastQueue), toastCount')]_vars

\* Six toasts were shown without any exit transition ending: the sixth call
\* found five tracked, and the first toast is dismissed and untracked while
\* it is still attached.
C1_Witness ==
    /\ toastCount = MAX_TOASTS + 1
    /\ toastQueue = <<2, 3, 4, 5, 6>>
    /\ toastInDom[1] /\ toastCls[1] = "exit"
    /\ \A t \in 2..6 : toastCls[t] = "visible"

--------------------------------------------------------------------------
(* Claims on the debounced inline edit (SpecEdit).                        *)

RequestsOf(e) == {q \in 1..Len(updSent) : updSent[q].e = e}

\* The payload p carries the value the edit ed left in its field.  The
\* amount travels as the number its text parses to.
CarriesValue(p, ed) ==
    CASE ed.field = "desc" -> p.desc = Trim(ed.value)
      [] ed.field = "type" -> p.type = ed.value
      [] ed.field = "amount" -> p.amount = ParseAmount(ed.value)

\* Edit j follows edit i = j - 1 on the same field of the same row less than
\* DEBOUNCE_MS later.
QuickPair(j) ==
    /\ j \in 2..Len(edits)
    /\ edits[j].quick
    /\ edits[j].row = edits[j - 1].row
    /\ edits[j].field = edits[j - 1].field

C9_OneUpdateInFlightPerRow ==
    \A r \in EditRows :
        Cardinality({q \in updInFlight : updSent[q].row = r}) <= 1

\* C10: the pending write of a row is never dropped by an edit of another
\* row: an edit whose timeout was cleared was cleared by an edit of its row.
C10_NoCrossRowCancel ==
    \A i \in 1..Len(edits) :
        edits[i].st = "cancelled" => edits[i].by = edits[i].row

--------------------------------------------------------------------------
(* Claims on the chart refresh (SpecChart).                               *)

ChartIds == 1..Len(chartCalls)

\* C3: a call that was pending when a later updateChartData call began has
\* had its request aborted, never draws "Failed to load chart", and raises
\* no toast, at whatever point its continuation runs.
C3_SupersededIsSilent ==
    /\ \A c \in ChartIds :
          chartCalls[c].superseded =>
              /\ chartCalls[c].aborted
              /\ c \notin fallbackBy
    /\ toastCount = 0

\* A superseded call has run its catch block while the call that replaced
\* it has drawn the fallback message for a failure of its own.
C3_Witness ==
    \E c, d \in ChartIds :
        /\ c < d
        /\ chartCalls[c].superseded /\ chartCalls[c].outcome = "aborted"
        /\ d \in fallbackBy

Succeeded == {c \in ChartIds : chartCalls[c].outcome = "ok"}

LastSucceeded == CHOOSE c \in Succeeded : \A d \in Succeeded : d <= c

\* C4: whenever no refresh is pending, financeChartData is the payload of
\* the latest started call among those that succeeded (if any did), and a
\* superseded call never succeeds, so its response never reaches the dataset.
C4_LatestStartedWins ==
    /\ ((\A c \in ChartIds : ~Pending(c)) /\ Succeeded # {}) =>
           financeChartData = UpdateFinanceChart(chartCalls[LastSucceeded].data)
    /\ \A c \in ChartIds : chartCalls[c].superseded => chartCalls[c].outcome # "ok"

\* Call 1 succeeded with one payload, call 2 was superseded by call 3, which
\* succeeded with another payload: the dataset is call 3's.
C4_Witness ==
    /\ Len(chartCalls) = 3
    /\ \A c \in ChartIds : ~Pending(c)
    /\ chartCalls[1].outcome = "ok" /\ chartCalls[3].outcome = "ok"
    /\ chartCalls[2].superseded
    /\ chartCalls[1].data # chartCalls[3].data
    /\ financeChartData = UpdateFinanceChart(chartCalls[3].data)

--------------------------------------------------------------------------
(* Claims on the transaction list (SpecList).                             *)

ReqIds == 1..Len(requests)

\* Every fetch has been answered and its continuation has run.
Quiescent == \A q \in ReqIds : requests[q].st = "done"

Answered(kind, res) ==
    {q \in ReqIds : requests[q].kind = kind /\ requests[q].res = res}

Handled(kind, res) == {q \in Answered(kind, res) : requests[q].st = "done"}

\* order lists the ids of rows, row by row.
SameIds(order, rows) ==
    /\ Len(order) = Len(rows)
    /\ \A i \in 1..Len(rows) : order[i] = rows[i].id

RowsOf(id) == {i \in 1..Len(txList) : txList[i].id = id}

\* C5: an undo that the server accepts puts one row, carrying the id of the
\* soft-deleted item, in front of the rows of the list; an undo that the
\* server refuses leaves the rows alone; no item is restored more often than
\* it was deleted; and with every round trip over, no id has two rows.
C5_UndoRestoresOnce ==
    /\ [][\A q \in ReqIds :
            (requests[q].kind = "undo" /\ requests[q].st = "replied"
                /\ requests'[q].st = "done") =>
                IF requests[q].res = "ok"
                THEN /\ txList' # <<>>
                     /\ Head(txList').id = requests[q].id
                     /\ Tail(txList') = txList
                ELSE txList' = txList]_vars
    /\ [](\A id \in 1..(Len(InitialIds) + MaxOps) :
            Cardinality({q \in Answered("undo", "ok") : requests[q].id = id})
                <= Cardinality({q \in Answered("delete", "ok") : requests[q].id = id}))
    /\ [](Quiescent => \A id \in 1..(Len(InitialIds) + MaxOps) :
                            Cardinality(RowsOf(id)) <= 1)

\* One delete, of item 1, has been answered; the first undo restored item 1
\* as the first row and the second undo was refused.
C5_Witness ==
    /\ Quiescent
    /\ \E d \in Handled("delete", "ok") : requests[d].id = 1
    /\ Cardinality(Answered("delete", "ok")) = 1
    /\ \E u \in Handled("undo", "ok") : requests[u].id = 1
    /\ Handled("undo", "fail") # {}
    /\ txList # <<>> /\ Head(txList).id = 1
    /\ Cardinality(RowsOf(1)) = 1

Reorders == {q \in ReqIds : requests[q].kind = "reorder"}

\* The last /reorder_transactions request carries the ids of the rows.
LastReorderIsDom ==
    /\ Reorders # {}
    /\ LET q == CHOOSE r \in Reorders : \A o \in Reorders : o <= r
       IN  SameIds(requests[q].order, txList)

MembershipChanged ==
    Handled("add", "ok") \cup Handled("delete", "ok") \cup Handled("undo", "ok") # {}

C7_DomIsPersistedOrder ==
    (Quiescent /\ \A q \in ReqIds : requests[q].res = "ok") =>
        SameIds(persistedOrder, txList)

\* The stored order holds exactly the ids of order.
CoversStored(order) ==
    /\ Len(order) = Len(persistedOrder)
    /\ Range(order) = Range(persistedOrder)

\* C8: a drop sends one reorder request that lists every row id in the
\* order of the rows; when the server takes a request that lists the stored
\* ids, the stored order is the order of the request.
C8_DropRoundTrip ==
    [][/\ (drops' = drops + 1) =>
            /\ Len(requests') = Len(requests) + 1
            /\ requests'[Len(requests')].kind = "reorder"
            /\ requests'[Len(requests')].st = "sent"
            /\ SameIds(requests'[Len(requests')].order, txList')
       /\ \A q \in ReqIds :
            (requests[q].kind = "reorder" /\ requests[q].st = "sent"
                /\ requests'[q].res = "ok" /\ CoversStored(requests[q].order)) =>
                persistedOrder' = requests[q].order]_vars

\* The rows were dropped into the order 3, 1, 2 and the server stores it.
C8_Witness ==
    /\ \E q \in Handled("reorder", "ok") :
          requests[q].origin = "drop" /\ requests[q].order = <<3, 1, 2>>
    /\ SameIds(<<3, 1, 2>>, txList)
    /\ persistedOrder = <<3, 1, 2>>

\* The delete requests for row whose handler has not finished.
DeletesInFlight(row) ==
    {q \in ReqIds : /\ requests[q].kind = "delete"
                    /\ requests[q].st # "done"
                    /\ Row(requests[q].id, requests[q].gen) = row}

\* C11: a row never has two delete requests in flight: a submit of its
\* delete form while the first request is unanswered issues no request.
C11_OneDeleteInFlightPerRow ==
    \A i \in 1..Len(txList) : Cardinality(DeletesInFlight(txList[i])) <= 1

\* The continuation of fetch q of the kind given runs in this step, on an
\* answer that is not 2xx or on a rejected fetch.
HandlesFailure(q, kind) ==
    /\ q \in ReqIds
    /\ requests[q].kind = kind
    /\ requests[q].st = "replied" /\ requests'[q].st = "done"
    /\ requests[q].res # "ok"

\* C14: when a delete request fails, on a status that is not 2xx or on a
\* network error, the list keeps every row at its position, the row's busy
\* mark is cleared, one error toast is shown, no toast with Undo is shown
\* and no reorder request is sent.
C14_FailedDeleteKeepsRow ==
    [][\A q \in 1..MaxRequests :
          HandlesFailure(q, "delete") =>
              /\ txList' = txList
              /\ Row(requests[q].id, requests[q].gen) \notin txBusy'
              /\ txToasts'["error"] = txToasts["error"] + 1
              /\ txToasts'["undo"] = txToasts["undo"]
              /\ Len(requests') = Len(requests)]_vars

\* A delete of a row has failed, the row is in the list, not busy, and no
\* Undo was offered.
C14_Witness ==
    /\ \E q \in Handled("delete", "error") \cup Handled("delete", "neterr") :
          /\ Row(requests[q].id, requests[q].gen) \in Range(txList)
          /\ Row(requests[q].id, requests[q].gen) \notin txBusy
    /\ txToasts["error"] >= 1
    /\ txToasts["undo"] = 0
    /\ Reorders = {}

\* The submit handler of the add form stops at its validation in this step.
RejectsAddForm ==
    /\ userOps' = userOps + 1
    /\ requests' = requests
    /\ drops' = drops

\* The rows that did not come with the page and were not restored by Undo.
AddedRows == {i \in 1..Len(txList) :
                 txList[i].gen = 0 /\ txList[i].id \notin Range(InitialIds)}

\* C15: a row is added only once the server has confirmed the add; an add
\* that fails, at the validation of the form, on a status that is not 2xx or
\* on a network error, leaves the list as it was, does not reset the form
\* and shows one error toast.
C15_AddOnlyAfterConfirmation ==
    /\ [](\A i \in AddedRows :
             \E q \in Handled("add", "ok") : requests[q].id = txList[i].id)
    /\ [](formResets <= Cardinality(Handled("add", "ok")))
    /\ [][(RejectsAddForm \/ \E q \in 1..MaxRequests : HandlesFailure(q, "add")) =>
              /\ txList' = txList
              /\ formResets' = formResets
              /\ txToasts'["error"] = txToasts["error"] + 1
              /\ txToasts'["success"] = txToasts["success"]]_vars

\* An add has failed after its request, another one stopped at the
\* validation: the list is the one of the page and the form was never reset.
C15_Witness ==
    /\ Handled("add", "error") \cup Handled("add", "neterr") # {}
    /\ txToasts["error"] = 2
    /\ SameIds(InitialIds, txList)
    /\ formResets = 0

\* C24: a drop sends no reorder request itself; the request is left to the
\* timer of a debounce, so that drops made within its delay of one another
\* share one request, which carries the order after the last of them.
C24_DropIsDebounced ==
    [][drops' = drops + 1 => requests' = requests]_vars

--------------------------------------------------------------------------
(* Claims on the validation of the inline edit (SpecEdit).                *)

\* saveTransaction(e) runs in this step.
Saves(e) == e \in 1..Len(edits) /\ edits[e].st = "pending" /\ edits'[e].st = "fired"

\* C12: when saveTransaction runs for a row whose amount text does not
\* parse to a finite number, it issues no request, shows an error toast and
\* leaves the row without its busy mark.
C12_NonFiniteAmountAborts ==
    [][\A e \in 1..MaxEdits :
          (Saves(e) /\ LET a == ParseAmount(rowText[edits[e].row].amount)
                       IN  a.nan \/ a.inf) =>
              /\ updSent' = updSent
              /\ edits'[e].toast # ""
              /\ ~rowBusy'[edits[e].row]]_vars

\* C13: when saveTransaction runs for a row whose description is empty
\* after trimming, it issues no request and shows an error toast.
C13_EmptyDescriptionAborts ==
    [][\A e \in 1..MaxEdits :
          (Saves(e) /\ Trim(rowText[edits[e].row].desc) = "") =>
              /\ updSent' = updSent
              /\ edits'[e].toast # ""]_vars

--------------------------------------------------------------------------
(* Claims on the buttons of a toast (SpecAction).                         *)

\* options.onAction of toast t is called in this step.
Invokes(t) == toastInvoked'[t] # toastInvoked[t]

\* C16: the callback of a toast's action button (the Undo of a delete) is
\* invoked at most once, and it is not invoked once the toast has been
\* dismissed, whatever dismissed it.
C16_ActionInvokedAtMostOnce ==
    /\ [](\A t \in ToastIds : toastInvoked[t] <= 1)
    /\ [][\A t \in ToastIds : Invokes(t) => toastCls[t] = "visible"]_vars

\* The close button of toast t is activated in this step.
Closes(t) == toastAction[t] /\ ~toastClosed[t] /\ toastClosed'[t]

\* C17: an activation of the action button calls the callback once and
\* dismisses the toast, whether the callback returns or throws; an
\* activation of the close button dismisses the toast and calls nothing.
C17_ActionThenDismiss ==
    [][\A t \in ToastIds :
          /\ Invokes(t) => /\ toastInvoked'[t] = toastInvoked[t] + 1
                           /\ toastCls'[t] = "exit"
          /\ toastThrown'[t] # toastThrown[t] => Invokes(t)
          /\ Closes(t) => /\ toastCls'[t] = "exit"
                          /\ toastInvoked' = toastInvoked]_vars

\* One toast was dismissed by its action button, whose callback threw, and
\* another one by its close button, its callback never called.
C17_Witness ==
    \E t, u \in ToastIds :
        /\ toastInvoked[t] = 1 /\ toastThrown[t] = 1 /\ toastCls[t] = "exit"
        /\ toastAction[u] /\ toastClosed[u] /\ toastInvoked[u] = 0
        /\ toastCls[u] = "exit"

--------------------------------------------------------------------------
(* Claims on the timer and the lifecycle of a toast (SpecToast, and        *)
(* LiveToast where something must happen eventually).                     *)

\* removeToast(t) takes effect in this step.
Dismisses(t) == toastCls[t] = "visible" /\ toastCls'[t] = "exit"

\* No timeout fires in this step: none of the pending ones goes away.
NoTimerFires == \A u \in ToastIds : toastTimer'[u] >= toastTimer[u]

\* showToast evicts toast t in this step.
Evicts(t) ==
    /\ IsShowToastStep
    /\ Len(toastQueue) = MAX_TOASTS /\ Head(toastQueue) = t

Persistent(t) == toastInDom[t] /\ toastDur[t] = 0

NeverTimed == \A t \in ToastIds : Persistent(t) => toastTimer[t] = 0

PointerLeaves(t) == toastHover = t /\ toastHover' = 0 /\ toastInDom'[t]

Timed(t) == toastInDom[t] /\ toastDur[t] > 0

\* C19: a toast of positive duration has no timeout pending while the
\* pointer is over it and never more than one; when the pointer leaves it a
\* timeout is pending again, and a toast the pointer is not over is
\* eventually dismissed unless the pointer comes back first.
C19_TimerPausesOnHover ==
    /\ [](\A t \in ToastIds : toastHover = t => toastTimer[t] = 0)
    /\ [](\A t \in ToastIds : toastTimer[t] <= 1)
    /\ [][\A t \in ToastIds :
             (Timed(t) /\ PointerLeaves(t)) => toastTimer'[t] = 1]_vars
    /\ \A t \in ToastIds :
          (Timed(t) /\ toastHover # t) ~> (toastCls[t] = "exit" \/ toastHover = t)

\* The pointer is over a visible toast of positive duration, whose timeout
\* is cleared, while the timeout of another toast is pending.
C19_Witness ==
    \E t, u \in ToastIds :
        /\ Timed(t) /\ toastCls[t] = "visible"
        /\ toastHover = t /\ toastTimer[t] = 0
        /\ Timed(u) /\ toastCls[u] = "visible" /\ toastTimer[u] = 1

\* C20: a toast leaves the document only from the exit state, and is then
\* dropped from the queue; a toast in the exit state stays in it; a toast
\* that left the document is not in the queue; and every toast in the exit
\* state, whatever dismissed it, eventually leaves the document and the
\* queue.
C20_DismissedIsDetached ==
    /\ [][\A t \in ToastIds :
             /\ (toastInDom[t] /\ ~toastInDom'[t]) =>
                    (toastCls[t] = "exit" /\ t \notin Range(toastQueue'))
             /\ toastCls[t] = "exit" => toastCls'[t] = "exit"]_vars
    /\ [](\A t \in ToastIds : Tracked(t) => toastInDom[t])
    /\ \A t \in ToastIds :
          (toastCls[t] = "exit") ~> (~toastInDom[t] /\ ~Tracked(t))

\* A toast dismissed by eviction and one dismissed otherwise have both left
\* the document and the queue.
C20_Witness ==
    /\ toastCount = MaxShown
    /\ \E t \in ToastIds :
          t > 1 /\ toastCls[t] = "exit" /\ ~toastInDom[t] /\ ~Tracked(t)
    /\ toastCls[1] = "exit" /\ ~toastInDom[1] /\ ~Tracked(1)
    /\ Len(toastQueue) = MAX_TOASTS - 1

--------------------------------------------------------------------------
(* Claims on the failures of a chart refresh (SpecChart).                 *)

\* The extra attempts the error taxonomy gives a chart refresh.
RetryCap == 2

\* C21: a chart refresh that meets a transport error is tried again, up to
\* RetryCap more times, before the failure is shown: the call that draws
\* "Failed to load chart" is the last attempt of its refresh.
C21_FailureShownAfterRetries ==
    \A c \in fallbackBy : chartCalls[c].attempt = 1 + RetryCap

\* Call c ends in this step with the outcome given.
Ends(c, outcome) ==
    /\ c \in 1..Len(chartCalls)
    /\ chartCalls[c].st # "done" /\ chartCalls'[c].st = "done"
    /\ chartCalls'[c].outcome = outcome

\* C28: a refresh that fails, and was not cancelled, shows the fallback
\* message and leaves financeChartData as it was; a refresh that succeeds
\* sets income and expense of financeChartData from the one body it read.
C28_FailureKeepsSeries ==
    [][\A c \in 1..MaxCalls :
          /\ Ends(c, "failed") => /\ canvas' = "fallback"
                                  /\ c \in fallbackBy'
                                  /\ financeChartData' = financeChartData
          /\ Ends(c, "ok") => /\ financeChartData'.income = chartCalls'[c].data.income
                              /\ financeChartData'.expense = chartCalls'[c].data.expense
                              /\ canvas' = "chart"]_vars

\* After a refresh that stored totals, a later one got a body of the wrong
\* format: the fallback message is on the canvas and the totals are those
\* stored before.
C28_Witness ==
    \E b, c \in 1..Len(chartCalls) :
        /\ b < c
        /\ chartCalls[b].outcome = "ok"
        /\ financeChartData = [income |-> chartCalls[b].data.income,
                               expense |-> chartCalls[b].data.expense]
        /\ financeChartData.income = 200
        /\ chartCalls[c].outcome = "failed" /\ chartCalls[c].err = "Error"
        /\ c \in fallbackBy /\ canvas = "fallback"

--------------------------------------------------------------------------
(* Claims on what saveTransaction shows of its outcome (SpecEdit).        *)

\* The response to request q is handled in this step.
Responds(q) == q \in updInFlight /\ q \notin updInFlight'

\* C27: every failure of a transaction operation that is shown as an error
\* toast is written to the live region too, with the same text: here for
\* the failures of an update, at its validation and on its response.
C27_FailureMirroredInLiveRegion ==
    [][/\ \A e \in 1..MaxEdits :
             (Saves(e) /\ edits'[e].toast # "") => ariaLive' = edits'[e].toast
       /\ \A q \in 1..MaxEdits :
             Responds(q) => ariaLive' = updToasts'[q]]_vars

\* saveTransaction(e) stops at its validation in this step.
AbortsSave(e) == Saves(e) /\ updSent' = updSent

\* C30: a run of saveTransaction ends with the busy mark off its row, at
\* the validation and on every outcome of its request; a row that carries
\* the class of an outcome has a timeout pending that takes it off, and the
\* timeout takes it off.
C30_BusyClearedPulseReverts ==
    /\ [][/\ \A e \in 1..MaxEdits : AbortsSave(e) => ~rowBusy'[edits[e].row]
          /\ \A q \in 1..MaxEdits : Responds(q) => ~rowBusy'[updSent[q].row]
          /\ \A t \in pulseTimers \ pulseTimers' : t.cls \notin rowPulse'[t.row]]_vars
    /\ [](\A r \in EditRows : \A cls \in rowPulse[r] :
             \E t \in pulseTimers : t.row = r /\ t.cls = cls)

\* One save stopped at its validation, another one got an error status;
\* no row is busy, the red class of the second is on its row and the
\* timeout that takes it off is pending.
C30_Witness ==
    /\ \E e \in 1..Len(edits) : edits[e].toast = "Invalid amount entered"
    /\ \E q \in 1..Len(updSent) :
          /\ updToasts[q] = "Transaction update failed"
          /\ "bg-red-100" \in rowPulse[updSent[q].row]
    /\ pulseTimers # {}
    /\ \A r \in EditRows : ~rowBusy[r]

--------------------------------------------------------------------------
(* Claims on the mutations of a transaction (SpecMutation).               *)

MutationKinds == {"add", "delete", "undo"}

\* The requests sent to /add_transaction, /delete_transaction and
\* /undo_delete_transaction.
MutationRequests == {q \in ReqIds : requests[q].kind \in MutationKinds}

FailureMessages ==
    {"Transaction update failed", "Network error while updating transaction"}

\* C23: each mutation the user starts sends one request to its endpoint,
\* and a failed one ends in an error toast with no further request to any
\* endpoint.
C23_MutationsNeverRetried ==
    /\ [](Cardinality(MutationRequests) = userOps)
    /\ [](Len(updSent) <= Len(edits))
    /\ [][/\ \A q \in 1..MaxRequests, kind \in MutationKinds :
                HandlesFailure(q, kind) =>
                    /\ Len(requests') = Len(requests)
                    /\ txToasts'["error"] = txToasts["error"] + 1
          /\ \A q \in 1..MaxEdits :
                (Responds(q) /\ updToasts'[q] \in FailureMessages) =>
                    /\ updSent' = updSent
                    /\ saveTimers' = saveTimers]_vars

\* An update and a delete have both failed, each after its one request.
C23_Witness ==
    /\ \E q \in 1..Len(updSent) : updToasts[q] \in FailureMessages
    /\ Handled("delete", "error") \cup Handled("delete", "neterr") # {}
    /\ Len(updSent) = 1 /\ Len(requests) = 1
    /\ txToasts["error"] = 1

--------------------------------------------------------------------------
(* The drag binding of the transaction list.                              *)

\* A call of initTransactionSortable is made in this step.
CallsInitSortable == Len(sortableCalls') = Len(sortableCalls) + 1

\* C25: however many times initTransactionSortable is called, the list has
\* at most one drag binding and is marked bound exactly when it has one; a
\* call made while the drag library is not loaded makes no binding and
\* leaves the list unmarked, and a call made on an unmarked list once the
\* library is loaded binds it.
C25_BindingIsIdempotent ==
    /\ [](txSortables <= 1 /\ (sortableBound <=> txSortables = 1))
    /\ [][CallsInitSortable /\ ~sortableLib
            => ~sortableBound' /\ txSortables' = txSortables]_vars
    /\ [][CallsInitSortable /\ sortableLib /\ ~sortableBound
            => sortableBound' /\ txSortables' = 1]_vars

\* C25 witness: three calls, the first made before the drag library was
\* loaded, have left one binding, and a drag on it has ended.
C25_Witness ==
    /\ Len(sortableCalls) = MaxSortableCalls
    /\ ~sortableCalls[1] /\ sortableCalls[2] /\ sortableCalls[3]
    /\ txSortables = 1 /\ sortableBound
    /\ drops > 0

--------------------------------------------------------------------------
(* The notes.                                                             *)
NoteReqIds == 1..Len(noteRequests)

\* The /update_note requests of note save s.
UpdatesOf(s) ==
    {q \in NoteReqIds : noteRequests[q].kind = "update" /\ noteRequests[q].save = s}

\* C22: a note save that has ended has issued between 1 and 3 /update_note
\* requests, none after a successful one, has shown exactly one toast, a
\* success toast after a successful request and an error toast only after
\* three failed ones, and has left none of its "Saving..." indicators next
\* to the note.
C22_NoteSaveRetriesThenReports ==
    \A s \in 1..Len(noteSaves) :
        noteSaves[s].st = "ended" =>
            LET qs == UpdatesOf(s)
                ok == {q \in qs : noteRequests[q].res = "ok"}
            IN  /\ Cardinality(qs) \in 1..(1 + MAX_RETRIES)
                /\ \A q \in ok : \A p \in qs : p <= q
                /\ Len(noteSaves[s].toasts) = 1
                /\ noteSaves[s].toasts[1] = "success" => ok # {}
                /\ noteSaves[s].toasts[1] = "error" =>
                       ok = {} /\ Cardinality(qs) = 1 + MAX_RETRIES
                /\ \A q \in qs :
                       noteRequests[q].ind = 0 \/
                       noteIndicator[noteSaves[s].note] # noteRequests[q].ind

CsrfHeaderNames == {"X-Requested-With", "X-CSRFToken", "X-CSRF-Token"}

\* C26: every request the notes script sends (update, delete, undo,
\* reorder) carries the headers X-Requested-With, X-CSRFToken and
\* X-CSRF-Token.
C26_MutatingRequestsCarryCsrfHeaders ==
    \A q \in NoteReqIds : CsrfHeaderNames \subseteq noteRequests[q].headers

\* The handler of the answer to note request q, a 2xx answer to a request
\* of the kind given, runs in this step.
HandlesNoteSuccess(q, kind) ==
    /\ q \in NoteReqIds
    /\ noteRequests[q].kind = kind
    /\ noteRequests[q].st = "replied" /\ noteRequests[q].res = "ok"
    /\ noteRequests'[q].st = "done"

\* A /reorder_notes request with the order of the rows is sent in this step.
PersistsNoteOrder ==
    /\ Len(noteRequests') = Len(noteRequests) + 1
    /\ noteRequests'[Len(noteRequests')].kind = "reorder"
    /\ noteRequests'[Len(noteRequests')].body = DomIds(noteRows')

\* C29: the step that handles a successful note delete or a successful
\* note undo sends a /reorder_notes request with the order of the rows as
\* the step leaves them, and the step of the undo puts the restored note
\* first in the list.
C29_NoteDeleteAndUndoPersistOrder ==
    [][\A q \in NoteReqIds :
          /\ HandlesNoteSuccess(q, "delete") => PersistsNoteOrder
          /\ HandlesNoteSuccess(q, "undo") =>
                 /\ PersistsNoteOrder
                 /\ noteRows' # <<>> /\ noteRows'[1].id = noteRequests[q].note]_vars

--------------------------------------------------------------------------
(* The list handlers after their reorder request.                         *)

\* The mutations of the list the server accepted and whose handler has run.
AcceptedMutations ==
    Handled("add", "ok") \cup Handled("delete", "ok") \cup Handled("undo", "ok")

\* C31: once every handler of the list has ended, there has been one pass
\* of updateChartData and updateSummaryUI for every add, delete and undo
\* the server accepted, whatever became of the reorder requests.
C31_AcceptedMutationRefreshes ==
    Quiescent => txRefreshes = Cardinality(AcceptedMutations)

\* The handler of the answer to request q runs in this step.
HandlesAnswer(q) ==
    q \in ReqIds /\ requests[q].st = "replied" /\ requests'[q].st = "done"

\* An error toast with one of the texts given is shown in this step.
RaisesError(texts) ==
    txToasts'["error"] > txToasts["error"] /\ txLastToast' \in texts

DeleteErrors == {"Delete failed", "Network error while deleting transaction"}

\* C33: a step that shows a delete error toast handles the answer to the
\* delete request of a row that the step leaves in the list.
C33_DeleteErrorOnlyForListedRow ==
    [][RaisesError(DeleteErrors) =>
          \E q \in ReqIds :
              /\ HandlesAnswer(q) /\ requests[q].kind = "delete"
              /\ Row(requests[q].id, requests[q].gen) \in Range(txList')]_vars

\* Every add request and every reorder request of the add handler has been
\* handled.
AddsComplete ==
    \A q \in ReqIds :
        (requests[q].kind = "add" \/ requests[q].origin = "add")
            => requests[q].st = "done"

\* C34: once the add submissions have completed, the form has been reset
\* once for every row appended; and a step that shows "Error adding
\* transaction" handles the answer to an add request and appends no row.
C34_ResetIffAppended ==
    /\ [](AddsComplete => formResets = Cardinality(Handled("add", "ok")))
    /\ [][RaisesError({"Error adding transaction"}) =>
             /\ \E q \in ReqIds : HandlesAnswer(q) /\ requests[q].kind = "add"
             /\ txList' = txList]_vars

\* C35: the step that handles the answer to the reorder request of a drop
\* shows a success toast only after a 2xx answer, and after an answer with
\* another status it shows an error toast and no success toast.
C35_OrderSavedOnlyWhenAccepted ==
    [][\A q \in ReqIds :
          (HandlesAnswer(q) /\ requests[q].kind = "reorder"
                            /\ requests[q].origin = "drop") =>
              /\ txToasts'["success"] > txToasts["success"] => requests[q].res = "ok"
              /\ requests[q].res = "error" =>
                     /\ txToasts'["error"] > txToasts["error"]
                     /\ txToasts'["success"] = txToasts["success"]]_vars

\* C32: the note an undo has restored is the note whose deletion raised the
\* toast whose Undo button was activated.
C32_UndoRestoresItemOfItsToast ==
    \A q \in NoteReqIds :
        (noteRequests[q].kind = "undo" /\ noteRequests[q].res = "ok")
            => noteRequests[q].note = noteRequests[q].row.id

--------------------------------------------------------------------------
(* The spinner of the chart refresh.                                      *)

\* C37: the spinner interval of an updateChartData call runs exactly while
\* the call is pending: with no call pending no interval runs, and once
\* every superseded call has ended at most one interval runs.
C37_SpinnerStopsWithItsCall ==
    /\ spinners = {c \in ChartIds : Pending(c)}
    /\ (\A c \in ChartIds : ~Pending(c)) => spinners = {}
    /\ (\A c \in ChartIds : chartCalls[c].superseded => ~Pending(c))
           => Cardinality(spinners) <= 1

\* C37 witness: a superseded call has ended on its AbortError, another call
\* has ended by drawing the chart, and the interval of the latest call is
\* the only one running.
C37_Witness ==
    /\ \E c \in ChartIds :
           chartCalls[c].superseded /\ chartCalls[c].outcome = "aborted"
    /\ \E c \in ChartIds : chartCalls[c].outcome = "ok"
    /\ \A c \in ChartIds : chartCalls[c].superseded => ~Pending(c)
    /\ spinners = {Len(chartCalls)}

--------------------------------------------------------------------------
(* The start-up of the dashboard.                                         *)

\* C38: "dashboard-ready" is dispatched only by a step that ends the await
\* of a chart refresh that drew the chart from loaded data; start-up ends
\* with the event or with the error banner, and the loading indicator is
\* gone after at most maxRetries + 1 refresh attempts.
C38_ReadyOnlyAfterLoadedData ==
    /\ [][(DashboardReady' /\ ~DashboardReady) =>
             (initAwaits # 0 /\ chartCalls[initAwaits].outcome = "ok")]_vars
    /\ [](~LoadingIndicator => (DashboardReady \/ ErrorBanner))
    /\ [](retryCount <= maxRetries + 1)

--------------------------------------------------------------------------
(* The order of the widgets.                                              *)

\* The array initWidgetSorting finds stored, empty when nothing is stored.
SavedOrder == Parse(widgetStored).order

\* C39: a drag leaves the order of the children stored; and after a page
\* load the rendered widgets whose ids are not in the stored order come
\* first, in the order rendered, followed by the stored ids that were
\* rendered, in the stored order: exactly the stored order when the page
\* rendered the widgets stored, whatever order it rendered them in.
C39_WidgetOrderRoundTrips ==
    /\ widgetPhase = "dragged" => SavedOrder = widgetChildren
    /\ widgetPhase = "loaded" =>
           /\ widgetChildren =
                  SelectSeq(widgetRendered, LAMBDA w : w \notin Range(SavedOrder)) \o
                  SelectSeq(SavedOrder, LAMBDA w : w \in Range(widgetRendered))
           /\ Range(widgetRendered) = Range(SavedOrder) => widgetChildren = SavedOrder

\* C39 witness: an order was stored by a drag, and a page that rendered the
\* same widgets in another order has been given the stored order.
C39_Witness ==
    /\ widgetPhase = "loaded"
    /\ Len(SavedOrder) = Cardinality(Widgets)
    /\ Range(widgetRendered) = Range(SavedOrder)
    /\ widgetRendered # SavedOrder
    /\ widgetChildren = SavedOrder

--------------------------------------------------------------------------
(* The summary re-fetch.                                                  *)

\* C36: once every call of updateSummaryUI has completed, and the call
\* started last was answered with totals, the three texts show those
\* totals: an earlier call answered later has not overwritten them.
C36_LatestStartedFetchWins ==
    (/\ summaryCalls # <<>>
     /\ \A c \in SummaryIds : summaryCalls[c].st # "sent"
     /\ summaryCalls[Len(summaryCalls)].st = "ok")
    => summaryText = SummaryOf(summaryCalls[Len(summaryCalls)].data)

==========================================================================
